---- MODULE Spec2Model ----
(***************************************************************************)
(* emCore messaging: the publish/subscribe message broker with per-task    *)
(* mailboxes (message_broker.hpp) and the QoS publisher / subscriber       *)
(* (qos_pubsub.hpp), modelled as state machines.                           *)
(***************************************************************************)
EXTENDS Integers, Sequences, FiniteSets, TLC

(***************************************************************************)
(* Program constants                                                       *)
(***************************************************************************)
queue_capacity == 4
max_topics == 6
max_subscribers_per_topic == 3
min_per_topic_total == 2
default_topic_high_ratio_num == 1
default_topic_high_ratio_den == 4
MaxTasks == 8
invalid_task_id == 65535
U16 == 65536
default_ack_timeout_us == 500000
sizeof_message_ack == 6
priority_normal == 1
priority_high == 2
PACKET_SYNC == <<85, 170>>
PACKET_LENGTH_16BIT == TRUE
PACKET_MAX_PAYLOAD == 64
OPCODE_SPACE == 5
MaxFields == 16

(***************************************************************************)
(* Bounds of the model                                                     *)
(***************************************************************************)
MaxPub == 4          \* publish calls in the general broker specification
MaxFanoutPub == 5    \* publish calls in the fan-out specification
MaxPublishCalls == 3 \* publish calls in the publish specification
PendingLimit == 2    \* qos_publisher<Msg, PendingLimit> instantiation
TrackLimit == 1      \* qos_subscriber<Msg, TrackLimit> instantiation
MaxQosPub == 3       \* qos_publisher.publish calls
MaxRawPub == 1       \* publishes by a second sender in the QoS specification
MaxTicks == 2        \* clock advances in the QoS specification
TickUs == 250000     \* microseconds per clock advance
MaxSeqPub == 3       \* publishes with a chosen sequence number
MaxPayload == 2      \* packet_parser<MaxPayload, ...> instantiation
MaxScalars == 2      \* scalar fields of a registered layout
MaxCreated == 2      \* create_task calls
MaxRuns == 2         \* task function invocations
MaxTimeMs == 1       \* last value of the millisecond clock
MaxWaitPub == 2      \* publishes by the concurrent senders
MaxWaitMs == 2       \* longest timeout_ms of a blocking receive
MaxTopicId == 7      \* topic ids 1..MaxTopicId in the registry specification
MaxOrderPub == 3     \* publish calls in the sequence-order specification

VARIABLES
    topic_slots,     \* config::default_max_topic_queues_per_mailbox of the build
    mailboxes_,      \* message_broker::mailboxes_  (index = task id + 1)
    topics_,         \* message_broker::topics_     (sorted by topic_id)
    sequence_,       \* message_broker::sequence_
    sent_count_,     \* message_broker::sent_count_
    received_count_, \* message_broker::received_count_
    dropped_count_,  \* message_broker::dropped_count_
    now,             \* os::time_us()
    pubs,            \* number of messages built by publishers so far (payload tag)
    publog,          \* the publish calls so far: <<topic, urgent>> each
    lost,            \* <<task, sender, topic>> of normal messages dropped from or refused by a mailbox
    ret,             \* the last call and what it returned
    pending_,        \* qos_publisher::pending_ (sequence -> entry)
    local_seq_,      \* qos_publisher::local_seq_
    last_seq_,       \* qos_subscriber::last_seq_ (key -> sequence)
    accepted,        \* sequences for which qos_publisher.publish returned success
    delivered,       \* <<sender, topic, sequence>> -> times returned to the user by qos_subscriber.receive
    raws,            \* publishes done by the second sender
    ticks,           \* clock advances done
    parser_,         \* the packet_parser object
    candidates,      \* byte runs fed since a moment the parser was in SYNC that may still become a frame
    pret,            \* the last parser call and what it returned
    enc_layouts_,    \* field_encoder::layouts_ (opcode + 1 -> field types)
    dec_layouts_,    \* field_decoder::layouts_ (opcode + 1 -> field types)
    source_struct,   \* the struct handed to encode_command: opcode and field values
    wire,            \* bytes written by the encoder and not yet fed to the parser
    target_struct,   \* the struct decode_fields wrote into
    cret,            \* the last codec call and what it returned
    tasks_,          \* taskmaster::tasks_
    taskmaster_,     \* the scalar members of the taskmaster object
    time_ms,         \* os::time_ms()
    tret,            \* the last taskmaster call and what it returned
    notification,    \* the owner task has a pending notification (bit 0x01)
    sender_pc,       \* sender -> where it is inside mailbox send
    receiver_,       \* where the owner is inside the blocking receive, and its locals
    wret,            \* what the last blocking receive returned
    received_tags,   \* payloads returned by blocking receives so far
    dropped_tags,    \* payloads removed from the owner's mailbox by overflow handling
    config_,         \* the build's EMCORE_MSG_* knobs the mailbox capacities derive from
    depth_limit_,    \* task_mailbox::depth_limit of a mailbox of that build
    depth_arg_,      \* the depth the last set_mailbox_depth call asked for, -1 before any
    dispatcher_,     \* the command_dispatcher object: table_, size_, unknown_
    dret,            \* the last dispatcher call, what it returned and the handlers it invoked
    ring_,           \* the byte_ring object: buf_, head_, tail_
    producer_,       \* where the producer is inside push, and its locals
    consumer_,       \* where the consumer is inside pop, and its locals
    pushed,          \* the bytes of the pushes that stored their byte, in order
    popped,          \* the bytes successful pops returned, in order
    ring_calls,      \* push and pop calls started so far
    in_order,        \* the build performs the memory accesses of push and pop in program order
    zc_pool_,        \* the zero_copy_pool object: nodes_, free_head_
    handles_,        \* handle slot -> the zc_handle living there, if any
    held_,           \* block -> zc_handle objects on it that live elsewhere (containers, queues)
    zc_ops,          \* pool and handle operations done so far
    zret,            \* the last pool or handle operation
    ds_,             \* the distributed_state object: state_, pending_, local_seq_
    ds_sent,         \* the messages it published through the broker, in order
    ds_acked,        \* sequence -> the accepting ACKs processed for it while pending: peers, count
    ds_commits,      \* the commits it published: sequence, and the ACKs that led to it
    ds_ops,          \* process_message calls done so far
    uppers_,         \* the build's *_total_upper byte counts (memory/budget.hpp)
    budget_,         \* EMCORE_MEMORY_BUDGET_BYTES and EMCORE_NON_EMCORE_RAM_HEADROOM_BYTES
    kLayout,         \* memory::kLayout once the build has computed it
    bus_,            \* the event_bus object: handlers_, queue_, initialized_
    bret,            \* the last event_bus call, what it returned and the handler calls it made
    pipe_,           \* the packet_pipeline's ring and parser
    pipe_src,        \* the bytes the driver has yet to store in the ring
    pipe_fed,        \* the bytes the driver stored in the ring so far, in order
    pipe_out,        \* the packets handed to the dispatcher so far, in order
    pipe_ret,        \* the last pipeline call and what it returned
    sync_,           \* a packet_parser instantiated with some SYNC pattern
    sync_fed,        \* the bytes fed to that parser so far
    watchdog_,       \* task_watchdog::entries_
    wd_now,          \* platform::get_system_time_us()
    wd_ret,          \* the last watchdog call and what it observed
    os_calls         \* the os:: notification calls the last mailbox send or receive made

statVars == <<sent_count_, received_count_, dropped_count_>>
brokerVars == <<topic_slots, mailboxes_, topics_, sequence_, statVars>>
ghostVars == <<pubs, publog, lost>>
qosVars == <<pending_, local_seq_, last_seq_, accepted, delivered, raws, ticks>>
protoVars == <<parser_, candidates, pret>>
codecVars == <<enc_layouts_, dec_layouts_, source_struct, wire, target_struct, cret>>
taskVars == <<tasks_, taskmaster_, time_ms, tret>>
waitVars == <<notification, sender_pc, receiver_, wret, received_tags, dropped_tags>>
buildVars == <<config_, depth_limit_, depth_arg_>>
dispatcherVars == <<dispatcher_, dret>>
ringVars == <<ring_, producer_, consumer_, pushed, popped, ring_calls, in_order>>
poolVars == <<zc_pool_, handles_, held_, zc_ops, zret>>
dsVars == <<ds_, ds_sent, ds_acked, ds_commits, ds_ops>>
layoutVars == <<uppers_, budget_, kLayout>>
eventVars == <<bus_, bret>>
pipeVars == <<pipe_, pipe_src, pipe_fed, pipe_out, pipe_ret>>
syncVars == <<sync_, sync_fed>>
wdVars == <<watchdog_, wd_now, wd_ret>>
osVars == <<os_calls>>
lateVars == <<eventVars, pipeVars, syncVars, wdVars, osVars>>
sysVars == <<buildVars, dispatcherVars, ringVars, poolVars, dsVars, layoutVars, lateVars>>
extVars == <<protoVars, codecVars, taskVars, waitVars, sysVars>>
vars == <<topic_slots, mailboxes_, topics_, sequence_, statVars, now, pubs, publog, lost, ret,
          pending_, local_seq_, last_seq_, accepted, delivered, raws, ticks, extVars>>

Min(a, b) == IF a < b THEN a ELSE b
Max(a, b) == IF a > b THEN a ELSE b

(***************************************************************************)
(* Messages (message_types.hpp)                                            *)
(***************************************************************************)
NoMsg == [type |-> 65535, sender_id |-> 65535, priority |-> 0, flags |-> {},
          timestamp |-> 0, payload_size |-> 0, sequence_number |-> 0, payload |-> -1]

\* a message as its producer builds it: header zeroed except priority and flags
NewMessage(priority, flags, tag) ==
    [type |-> 0, sender_id |-> 0, priority |-> priority, flags |-> flags,
     timestamp |-> 0, payload_size |-> 0, sequence_number |-> 0, payload |-> tag]

has_flag(flags, check) == check \in flags

is_urgent(msg) ==
    has_flag(msg.flags, "urgent") \/ msg.priority >= priority_high

is_persistent(msg) == has_flag(msg.flags, "persistent")

(***************************************************************************)
(* task_mailbox                                                            *)
(***************************************************************************)
per_topic_total ==
    IF (queue_capacity \div topic_slots) >= min_per_topic_total
    THEN queue_capacity \div topic_slots
    ELSE min_per_topic_total

calc_high ==
    (per_topic_total * default_topic_high_ratio_num) \div default_topic_high_ratio_den

high_capacity == IF calc_high >= 1 THEN calc_high ELSE 1

normal_capacity_tmp ==
    IF per_topic_total > high_capacity THEN per_topic_total - high_capacity ELSE 0

normal_capacity == IF normal_capacity_tmp >= 1 THEN normal_capacity_tmp ELSE 1

NewMailbox ==
    [task_id |-> invalid_task_id,
     handle |-> 0,
     depth_limit |-> queue_capacity,
     dropped_overflow |-> 0,
     received_count |-> 0,
     overflow_drop_oldest |-> TRUE,
     notify_on_empty_only |-> TRUE,
     topic_queues |-> <<>>]

RECURSIVE SumSizes(_)
SumSizes(tqs) ==
    IF tqs = <<>> THEN 0
    ELSE Len(Head(tqs).high_queue) + Len(Head(tqs).normal_queue) + SumSizes(Tail(tqs))

total_size(mb) == SumSizes(mb.topic_queues)

is_empty_unlocked(mb) ==
    \A i \in 1..Len(mb.topic_queues) :
        mb.topic_queues[i].high_queue = <<>> /\ mb.topic_queues[i].normal_queue = <<>>

\* index (1-based) of the slot of topic_id, 0 when there is none
find_topic_index(tqs, topic_id) ==
    IF \E i \in 1..Len(tqs) : tqs[i].topic_id = topic_id
    THEN CHOOSE i \in 1..Len(tqs) :
            /\ tqs[i].topic_id = topic_id
            /\ \A j \in 1..(i-1) : tqs[j].topic_id # topic_id
    ELSE 0

\* [idx, tqs]: idx = 0 stands for nullptr
get_or_create_topic(tqs, topic_id) ==
    LET idx == find_topic_index(tqs, topic_id) IN
    IF idx > 0 THEN [idx |-> idx, tqs |-> tqs]
    ELSE IF Len(tqs) >= topic_slots THEN [idx |-> 0, tqs |-> tqs]
    ELSE [idx |-> Len(tqs) + 1,
          tqs |-> Append(tqs, [topic_id |-> topic_id, high_queue |-> <<>>, normal_queue |-> <<>>])]

FirstNonEmptyNormal(tqs) ==
    IF \E i \in 1..Len(tqs) : tqs[i].normal_queue # <<>>
    THEN CHOOSE i \in 1..Len(tqs) :
            /\ tqs[i].normal_queue # <<>>
            /\ \A j \in 1..(i-1) : tqs[j].normal_queue = <<>>
    ELSE 0

FirstNonEmptyHigh(tqs) ==
    IF \E i \in 1..Len(tqs) : tqs[i].high_queue # <<>>
    THEN CHOOSE i \in 1..Len(tqs) :
            /\ tqs[i].high_queue # <<>>
            /\ \A j \in 1..(i-1) : tqs[j].high_queue = <<>>
    ELSE 0

\* drop_one_any with pop() taking the newest message instead of the oldest
drop_one_any_newest(tqs) ==
    LET n == FirstNonEmptyNormal(tqs)
        h == FirstNonEmptyHigh(tqs) IN
    IF n > 0
    THEN [ok |-> TRUE, msg |-> tqs[n].normal_queue[Len(tqs[n].normal_queue)],
          tqs |-> [tqs EXCEPT ![n].normal_queue = SubSeq(@, 1, Len(@) - 1)]]
    ELSE IF h > 0
    THEN [ok |-> TRUE, msg |-> tqs[h].high_queue[Len(tqs[h].high_queue)],
          tqs |-> [tqs EXCEPT ![h].high_queue = SubSeq(@, 1, Len(@) - 1)]]
    ELSE [ok |-> FALSE, msg |-> NoMsg, tqs |-> tqs]

\* [ok, tqs, msg]: drops the oldest message of the first non-empty normal
\* queue, else of the first non-empty high queue
drop_one_any(tqs) ==
    LET n == FirstNonEmptyNormal(tqs)
        h == FirstNonEmptyHigh(tqs) IN
    IF n > 0
    THEN [ok |-> TRUE, msg |-> Head(tqs[n].normal_queue),
          tqs |-> [tqs EXCEPT ![n].normal_queue = Tail(@)]]
    ELSE IF h > 0
    THEN [ok |-> TRUE, msg |-> Head(tqs[h].high_queue),
          tqs |-> [tqs EXCEPT ![h].high_queue = Tail(@)]]
    ELSE [ok |-> FALSE, msg |-> NoMsg, tqs |-> tqs]

\* the push at the end of send: [ok, tqs]
PushRouted(tqs, idx, msg) ==
    LET high_full == Len(tqs[idx].high_queue) >= high_capacity
        normal_full == Len(tqs[idx].normal_queue) >= normal_capacity IN
    IF is_urgent(msg)
    THEN IF ~high_full
         THEN [ok |-> TRUE, tqs |-> [tqs EXCEPT ![idx].high_queue = Append(@, msg)]]
         ELSE IF ~normal_full
         THEN [ok |-> TRUE, tqs |-> [tqs EXCEPT ![idx].normal_queue = Append(@, msg)]]
         ELSE [ok |-> FALSE, tqs |-> tqs]
    ELSE IF ~normal_full
         THEN [ok |-> TRUE, tqs |-> [tqs EXCEPT ![idx].normal_queue = Append(@, msg)]]
         ELSE IF ~high_full
         THEN [ok |-> TRUE, tqs |-> [tqs EXCEPT ![idx].high_queue = Append(@, msg)]]
         ELSE [ok |-> FALSE, tqs |-> tqs]

\* overflow handling that starts at the depth limit only
overflow_at_depth_only(target_full, depth_reached) == depth_reached

\* the condition of send under which overflow handling starts
overflow_needed(target_full, depth_reached) == target_full \/ depth_reached

\* a send that signals the owner only when the mailbox already held a message
should_notify_nonempty(notify_on_empty_only, was_empty) == ~was_empty

\* should_notify of send, decided inside the critical section
should_notify(notify_on_empty_only, was_empty) ==
    IF notify_on_empty_only THEN was_empty ELSE TRUE

\* task_mailbox::send: [mb, code, notify, dropped]
\* dropped is the message removed by overflow handling (NoMsg when none)
MailboxSend(mb, msg) ==
    LET was_empty == is_empty_unlocked(mb)
        depth_reached == total_size(mb) >= mb.depth_limit
        \* the end of send: the push into the queues tqs2 returned push
        Pushed(mb2, dropped, push) ==
            IF ~push.ok
            THEN [mb |-> mb2, code |-> "out_of_memory", notify |-> FALSE, dropped |-> dropped]
            ELSE [mb |-> [mb2 EXCEPT !.topic_queues = push.tqs], code |-> "success",
                  notify |-> should_notify(mb.notify_on_empty_only, was_empty) /\ mb.handle # 0,
                  dropped |-> dropped]
        \* send after get_or_create_topic returned slot; drop is what
        \* drop_one_any returns when overflow handling calls it
        Routed(slot, drop) ==
            LET tq == slot.tqs[slot.idx]
                target_full == IF is_urgent(msg)
                               THEN Len(tq.high_queue) >= high_capacity
                               ELSE Len(tq.normal_queue) >= normal_capacity
                overflow == overflow_needed(target_full, depth_reached)
                may_drop == ~is_persistent(msg) /\ mb.overflow_drop_oldest /\ drop.ok
                tqs2 == IF overflow THEN drop.tqs ELSE slot.tqs
            IN
            IF overflow /\ ~may_drop
            THEN [mb |-> [mb EXCEPT !.topic_queues = slot.tqs], code |-> "out_of_memory",
                  notify |-> FALSE, dropped |-> NoMsg]
            ELSE Pushed([mb EXCEPT !.topic_queues = tqs2,
                                   !.dropped_overflow = IF overflow THEN @ + 1 ELSE @],
                        IF overflow THEN drop.msg ELSE NoMsg,
                        PushRouted(tqs2, slot.idx, msg))
        Located(slot) ==
            IF slot.idx = 0
            THEN [mb |-> mb, code |-> "out_of_memory", notify |-> FALSE, dropped |-> NoMsg]
            ELSE Routed(slot, drop_one_any(slot.tqs))
    IN Located(get_or_create_topic(mb.topic_queues, msg.type))

\* task_mailbox::receive: [mb, code, msg, clear]
MailboxReceive(mb) ==
    LET h == FirstNonEmptyHigh(mb.topic_queues)
        n == FirstNonEmptyNormal(mb.topic_queues)
        Taken(mb1, msg) ==
            [mb |-> mb1, code |-> "success", msg |-> msg, clear |-> is_empty_unlocked(mb1)]
    IN
    IF is_empty_unlocked(mb)
    THEN [mb |-> mb, code |-> "not_found", msg |-> NoMsg, clear |-> FALSE]
    ELSE IF h > 0
    THEN Taken([mb EXCEPT !.topic_queues[h].high_queue = Tail(@), !.received_count = @ + 1],
               Head(mb.topic_queues[h].high_queue))
    ELSE IF n > 0
    THEN Taken([mb EXCEPT !.topic_queues[n].normal_queue = Tail(@), !.received_count = @ + 1],
               Head(mb.topic_queues[n].normal_queue))
    ELSE [mb |-> mb, code |-> "not_found", msg |-> NoMsg, clear |-> FALSE]

(***************************************************************************)
(* message_broker                                                          *)
(***************************************************************************)
\* index (1-based) into mailboxes_ of the mailbox of task_id, 0 for nullptr
find_mailbox(mbs, task_id) ==
    IF task_id >= Len(mbs) THEN 0
    ELSE IF mbs[task_id + 1].task_id = task_id THEN task_id + 1 ELSE 0

\* etl::lower_bound on topics_[first+1 .. first+count]: number of elements
\* before the first one whose topic_id is not less than topic_id
RECURSIVE lower_bound(_, _, _, _)
lower_bound(ts, first, count, topic_id) ==
    IF count <= 0 THEN first
    ELSE LET step == count \div 2
             mid == first + step IN
         IF ts[mid + 1].topic_id < topic_id
         THEN lower_bound(ts, mid + 1, count - (step + 1), topic_id)
         ELSE lower_bound(ts, first, step, topic_id)

\* an insert position that ignores the order: the end of the range
upper_bound_end(ts, first, count, topic_id) == first + count

\* etl::upper_bound: number of elements before the first one whose topic_id
\* is greater than topic_id
RECURSIVE upper_bound(_, _, _, _)
upper_bound(ts, first, count, topic_id) ==
    IF count <= 0 THEN first
    ELSE LET step == count \div 2
             mid == first + step IN
         IF ~(topic_id < ts[mid + 1].topic_id)
         THEN upper_bound(ts, mid + 1, count - (step + 1), topic_id)
         ELSE upper_bound(ts, first, step, topic_id)

\* index (1-based) of the topic in topics_, 0 for nullptr
find_topic(ts, topic_id) ==
    LET pos == lower_bound(ts, 0, Len(ts), topic_id) IN
    IF pos < Len(ts) /\ ts[pos + 1].topic_id = topic_id THEN pos + 1 ELSE 0

NewTopic(topic_id) ==
    [topic_id |-> topic_id, capacity_limit |-> max_subscribers_per_topic,
     subscriber_ids |-> <<>>]

\* etl::vector::insert before position pos (0-based)
InsertAt(s, pos, e) == SubSeq(s, 1, pos) \o <<e>> \o SubSeq(s, pos + 1, Len(s))

SeqElems(s) == {s[i] : i \in 1..Len(s)}

\* message_broker::register_task: [mbs, code]
register_task(mbs, task_id, handle) ==
    IF task_id >= MaxTasks THEN [mbs |-> mbs, code |-> "out_of_memory"]
    ELSE LET grown == IF Len(mbs) <= task_id
                      THEN mbs \o [i \in 1..(task_id + 1 - Len(mbs)) |-> NewMailbox]
                      ELSE mbs
         IN [mbs |-> [grown EXCEPT ![task_id + 1].task_id = task_id,
                                   ![task_id + 1].handle = handle],
             code |-> "success"]

\* message_broker::set_overflow_policy: [mbs, code]
set_overflow_policy(mbs, task_id, drop_oldest) ==
    LET m == find_mailbox(mbs, task_id) IN
    IF m = 0 THEN [mbs |-> mbs, code |-> "not_found"]
    ELSE [mbs |-> [mbs EXCEPT ![m].overflow_drop_oldest = drop_oldest], code |-> "success"]

\* message_broker::set_mailbox_depth: [mbs, code]
set_mailbox_depth(mbs, task_id, depth) ==
    LET m == find_mailbox(mbs, task_id)
        clamped == IF depth > queue_capacity THEN queue_capacity ELSE depth IN
    IF m = 0 THEN [mbs |-> mbs, code |-> "not_found"]
    ELSE [mbs |-> [mbs EXCEPT ![m].depth_limit = clamped], code |-> "success"]

\* message_broker::subscribe: [ts, code]
subscribe(ts, topic_id, task_id) ==
    LET found == find_topic(ts, topic_id) IN
    IF found = 0 /\ Len(ts) >= max_topics
    THEN [ts |-> ts, code |-> "out_of_memory"]
    ELSE
    LET pos == upper_bound(ts, 0, Len(ts), topic_id)
        ts1 == IF found = 0 THEN InsertAt(ts, pos, NewTopic(topic_id)) ELSE ts
        t == IF found = 0 THEN pos + 1 ELSE found
    IN
    IF Len(ts1[t].subscriber_ids) >= ts1[t].capacity_limit
    THEN [ts |-> ts1, code |-> "out_of_memory"]
    ELSE IF task_id \in SeqElems(ts1[t].subscriber_ids)
    THEN [ts |-> ts1, code |-> "success"]
    ELSE [ts |-> [ts1 EXCEPT ![t].subscriber_ids = Append(@, task_id)], code |-> "success"]

\* message_broker::set_topic_capacity: [ts, code]
set_topic_capacity(ts, topic_id, max_subs) ==
    LET found == find_topic(ts, topic_id) IN
    IF found = 0 /\ Len(ts) >= max_topics
    THEN [ts |-> ts, code |-> "out_of_memory"]
    ELSE
    LET pos == upper_bound(ts, 0, Len(ts), topic_id)
        ts1 == IF found = 0 THEN InsertAt(ts, pos, NewTopic(topic_id)) ELSE ts
        t == IF found = 0 THEN pos + 1 ELSE found
        clamped == IF max_subs > max_subscribers_per_topic
                   THEN max_subscribers_per_topic ELSE max_subs
    IN [ts |-> [ts1 EXCEPT ![t].capacity_limit = clamped], code |-> "success"]

\* the loop of publish over the subscribers subs[i..]:
\* [mbs, sent_any, drops] where drops lists <<task, message>> removed by overflow handling
RECURSIVE SendToAll(_, _, _, _)
SendToAll(mbs, subs, i, msg) ==
    LET m == find_mailbox(mbs, subs[i])
        \* the send to subs[i] returned r, the rest of the loop returned rest
        Joined(r, rest) ==
            [mbs |-> rest.mbs,
             sent_any |-> (r.code = "success") \/ rest.sent_any,
             sent |-> rest.sent + (IF r.code = "success" THEN 1 ELSE 0),
             failed |-> rest.failed + (IF r.code = "success" THEN 0 ELSE 1),
             drops |-> rest.drops \cup
                       (IF r.dropped = NoMsg THEN {} ELSE {<<subs[i], r.dropped>>}),
             refused |-> rest.refused \cup
                       (IF r.code = "success" THEN {} ELSE {subs[i]})]
        Sent(r) == Joined(r, SendToAll([mbs EXCEPT ![m] = r.mb], subs, i + 1, msg))
    IN
    IF i > Len(subs)
    THEN [mbs |-> mbs, sent_any |-> FALSE, sent |-> 0, failed |-> 0, drops |-> {}, refused |-> {}]
    ELSE IF m = 0 THEN SendToAll(mbs, subs, i + 1, msg)
    ELSE Sent(MailboxSend(mbs[m], msg))

\* a header that always gets the same sequence number
Stamp_same_sequence(msg, topic_id, from_task_id, seq, time) ==
    [msg EXCEPT !.sender_id = from_task_id,
                !.timestamp = IF @ = 0 THEN time ELSE @,
                !.sequence_number = 1,
                !.type = topic_id]

\* the header as publish fills it in
Stamp(msg, topic_id, from_task_id, seq, time) ==
    [msg EXCEPT !.sender_id = from_task_id,
                !.timestamp = IF @ = 0 THEN time ELSE @,
                !.sequence_number = IF @ = 0 THEN seq ELSE @,
                !.type = topic_id]

\* a publish that reports success whatever the mailboxes answered
publish_result_always_ok(sent_any) == "success"

\* the value publish returns after the loop over the subscribers
publish_result(sent_any) == IF sent_any THEN "success" ELSE "out_of_memory"

\* message_broker::publish on the broker state b = [mailboxes_, topics_, sequence_,
\* sent_count_, received_count_, dropped_count_]:
\* [b, msg, code, drops, refused]; msg is the caller's message as publish leaves it
publish(b, topic_id, msg, from_task_id, time) ==
    LET seq1 == IF msg.sequence_number = 0 THEN (b.sequence_ + 1) % U16 ELSE b.sequence_
        t == find_topic(b.topics_, topic_id)
        Published(stamped) ==
            LET Sent(r) ==
                    [b |-> [b EXCEPT !.sequence_ = seq1, !.mailboxes_ = r.mbs,
                                     !.sent_count_ = @ + r.sent,
                                     !.dropped_count_ = @ + r.failed],
                     msg |-> stamped,
                     code |-> publish_result(r.sent_any),
                     drops |-> r.drops, refused |-> r.refused]
            IN
            IF t = 0 \/ b.topics_[t].subscriber_ids = <<>>
            THEN [b |-> [b EXCEPT !.sequence_ = seq1], msg |-> stamped, code |-> "not_found",
                  drops |-> {}, refused |-> {}]
            ELSE Sent(SendToAll(b.mailboxes_, b.topics_[t].subscriber_ids, 1, stamped))
    IN Published(Stamp(msg, topic_id, from_task_id, b.sequence_, time))

\* message_broker::try_receive: [mbs, code, msg]
try_receive(mbs, task_id) ==
    LET m == find_mailbox(mbs, task_id)
        Received(r) ==
            IF r.code = "success"
            THEN [mbs |-> [mbs EXCEPT ![m] = r.mb], code |-> "success", msg |-> r.msg]
            ELSE [mbs |-> mbs, code |-> "not_found", msg |-> NoMsg]
    IN
    IF m = 0 THEN [mbs |-> mbs, code |-> "not_found", msg |-> NoMsg]
    ELSE Received(MailboxReceive(mbs[m]))

\* message_broker::receive with a timeout, called when no sender runs during
\* the wait: the immediate attempt decides, the wait expires
receive(mbs, task_id) ==
    LET m == find_mailbox(mbs, task_id)
        Received(r) ==
            IF r.code = "success"
            THEN [mbs |-> [mbs EXCEPT ![m] = r.mb], code |-> "success", msg |-> r.msg]
            ELSE [mbs |-> mbs, code |-> "timeout", msg |-> NoMsg]
    IN
    IF m = 0 THEN [mbs |-> mbs, code |-> "not_found", msg |-> NoMsg]
    ELSE Received(MailboxReceive(mbs[m]))

Broker ==
    [mailboxes_ |-> mailboxes_, topics_ |-> topics_, sequence_ |-> sequence_,
     sent_count_ |-> sent_count_, received_count_ |-> received_count_,
     dropped_count_ |-> dropped_count_]

\* received_count_ after a receive that returned code
Counted(code) == IF code = "success" THEN received_count_ + 1 ELSE received_count_

(***************************************************************************)
(* The calls of the broker as actions                                      *)
(***************************************************************************)
TaskIds == {1}
FanoutTasks == {1, 2, 3}
Topics == {7, 9}
NoFlags == {}
\* <<priority, flags>> of the messages publishers build
Kinds == {<<priority_normal, {}>>, <<priority_normal, {"urgent"}>>,
          <<priority_high, {}>>, <<priority_normal, {"persistent"}>>}
FanoutKinds == {<<priority_normal, {}>>, <<priority_normal, {"urgent"}>>}

Ret(op, task, topic, code, msg) ==
    [op |-> op, task |-> task, topic |-> topic, code |-> code, msg |-> msg, sent |-> <<>>]

\* a call that published the messages sent through the broker
RetSent(op, task, topic, code, msg, sent) ==
    [op |-> op, task |-> task, topic |-> topic, code |-> code, msg |-> msg, sent |-> sent]

(***************************************************************************)
(* Packet protocol: Fletcher-16 and the framing state machine              *)
(* (protocol/fletcher16.hpp, protocol/packet_parser.hpp)                   *)
(***************************************************************************)
\* fletcher16_accum::add
acc_add(acc, b) ==
    LET Added(sum1) == [sum1 |-> sum1, sum2 |-> (acc.sum2 + sum1) % 255]
    IN Added((acc.sum1 + b) % 255)

\* fletcher16_accum::reset leaves this value
acc_reset == [sum1 |-> 0, sum2 |-> 0]

\* fletcher16_accum::value: (sum2 << 8) | sum1 as u16
acc_value(acc) == (acc.sum2 * 256 + acc.sum1) % U16

\* the one-shot fletcher16(data, len): the sums after the first len bytes
RECURSIVE Fletcher16Sums(_, _)
Fletcher16Sums(data, len) ==
    LET Next(prev, sum1) == [sum1 |-> sum1, sum2 |-> (prev.sum2 + sum1) % 255]
        After(prev) == Next(prev, (prev.sum1 + data[len]) % 255)
    IN
    IF len = 0 THEN [sum1 |-> 0, sum2 |-> 0]
    ELSE After(Fletcher16Sums(data, len - 1))

fletcher16(data) ==
    LET Value(sums) == (sums.sum2 * 256 + sums.sum1) % U16
    IN Value(Fletcher16Sums(data, Len(data)))

\* a default-constructed packet_parser<max_payload, ...>
NewParser(max_payload) ==
    [state_ |-> "SYNC", error_ |-> "none", packet_ready_ |-> FALSE,
     data_index_ |-> 0, len_bytes_read_ |-> 0, chksum_bytes_read_ |-> 0, sync_index_ |-> 0,
     acc_ |-> acc_reset,
     pkt_ |-> [opcode |-> 0, length |-> 0, data |-> [i \in 1..max_payload |-> 0],
               checksum_rx |-> 0]]

\* only error_ is assigned
parser_set_error(p, error) == [p EXCEPT !.error_ = error]

\* packet_parser::reset followed by the assignment of error_ that every
\* caller makes
parser_reset(p, error) ==
    [p EXCEPT !.state_ = "SYNC", !.sync_index_ = 0, !.pkt_.length = 0, !.data_index_ = 0,
              !.pkt_.checksum_rx = 0, !.acc_ = acc_reset, !.error_ = error,
              !.packet_ready_ = FALSE]

\* the state handlers: [p, done]
on_sync(p, b) ==
    [p |-> IF b = PACKET_SYNC[p.sync_index_ + 1]
           THEN IF p.sync_index_ + 1 = Len(PACKET_SYNC)
                THEN [p EXCEPT !.state_ = "OP_CODE", !.acc_ = acc_reset, !.sync_index_ = 0]
                ELSE [p EXCEPT !.sync_index_ = @ + 1]
           ELSE [p EXCEPT !.sync_index_ = IF b = PACKET_SYNC[1] THEN 1 ELSE 0],
     done |-> FALSE]

\* the opcode is stored but not accumulated
on_opcode_unsummed(p, b) ==
    [p |-> [p EXCEPT !.pkt_.opcode = b, !.state_ = "DATA_LENGTH",
                     !.len_bytes_read_ = 0, !.pkt_.length = 0],
     done |-> FALSE]

on_opcode(p, b) ==
    [p |-> [p EXCEPT !.pkt_.opcode = b, !.acc_ = acc_add(@, b), !.state_ = "DATA_LENGTH",
                     !.len_bytes_read_ = 0, !.pkt_.length = 0],
     done |-> FALSE]

\* the action on_length takes once the length field is complete
length_complete(p, length) ==
    IF length > Len(p.pkt_.data) THEN parser_reset(p, "length_overflow")
    ELSE IF length = 0
    THEN [p EXCEPT !.pkt_.length = length, !.state_ = "CHECKSUM", !.chksum_bytes_read_ = 0]
    ELSE [p EXCEPT !.pkt_.length = length, !.state_ = "DATA", !.data_index_ = 0]

on_length(p, b) ==
    [p |-> IF PACKET_LENGTH_16BIT
           THEN IF p.len_bytes_read_ = 0
                THEN [p EXCEPT !.pkt_.length = (b * 256) % U16, !.acc_ = acc_add(@, b),
                               !.len_bytes_read_ = 1]
                ELSE length_complete([p EXCEPT !.acc_ = acc_add(@, b)],
                                     (p.pkt_.length \div 256) * 256 + b)
           ELSE length_complete([p EXCEPT !.acc_ = acc_add(@, b)], b),
     done |-> FALSE]

on_data(p, b) ==
    [p |-> [p EXCEPT !.pkt_.data[p.data_index_ + 1] = b, !.acc_ = acc_add(@, b),
                     !.data_index_ = @ + 1,
                     !.state_ = IF p.data_index_ + 1 >= p.pkt_.length THEN "CHECKSUM" ELSE @,
                     !.chksum_bytes_read_ = IF p.data_index_ + 1 >= p.pkt_.length
                                            THEN 0 ELSE @],
     done |-> FALSE]

\* the comparison on_checksum makes between the computed and the received value
checksum_accepted(calc, checksum_rx) == calc = checksum_rx

on_checksum(p, b) ==
    LET Validated(checksum_rx) ==
            IF checksum_accepted(acc_value(p.acc_), checksum_rx)
            THEN [p |-> [p EXCEPT !.pkt_.checksum_rx = checksum_rx, !.packet_ready_ = TRUE,
                                  !.state_ = "SYNC", !.acc_ = acc_reset, !.data_index_ = 0,
                                  !.error_ = "none"],
                  done |-> TRUE]
            ELSE [p |-> parser_reset(p, "checksum_mismatch"), done |-> FALSE]
    IN
    IF p.chksum_bytes_read_ = 0
    THEN [p |-> [p EXCEPT !.pkt_.checksum_rx = (b * 256) % U16, !.chksum_bytes_read_ = 1],
          done |-> FALSE]
    ELSE Validated((p.pkt_.checksum_rx \div 256) * 256 + b)

PacketRxStates == {"SYNC", "OP_CODE", "DATA_LENGTH", "DATA", "CHECKSUM"}

\* packet_parser::decode: [p, done]
decode(p, data) ==
    IF p.state_ \notin PacketRxStates
    THEN [p |-> parser_reset(p, "boundary_error"), done |-> FALSE]
    ELSE IF p.state_ = "SYNC" THEN on_sync(p, data)
    ELSE IF p.state_ = "OP_CODE" THEN on_opcode(p, data)
    ELSE IF p.state_ = "DATA_LENGTH" THEN on_length(p, data)
    ELSE IF p.state_ = "DATA" THEN on_data(p, data)
    ELSE on_checksum(p, data)

\* packet_parser::get_packet: [p, ok, out]
get_packet(p) ==
    IF ~p.packet_ready_ THEN [p |-> p, ok |-> FALSE, out |-> NewParser(Len(p.pkt_.data)).pkt_]
    ELSE [p |-> [p EXCEPT !.packet_ready_ = FALSE], ok |-> TRUE, out |-> p.pkt_]

(***************************************************************************)
(* Field codec (protocol/encoder.hpp, protocol/decoder.hpp).  A struct is  *)
(* the sequence of its fields' values in layout order; a u8_array field    *)
(* holds the bytes its pointer and length denote.                          *)
(***************************************************************************)
FieldTypes == {"U8", "U16", "U32", "U8_ARRAY"}

\* set_field_layout of the encoder and of the decoder: [layouts, ok]
set_field_layout(layouts, opcode, fields) ==
    IF Len(fields) > MaxFields THEN [layouts |-> layouts, ok |-> FALSE]
    ELSE [layouts |-> [layouts EXCEPT ![opcode + 1] = fields], ok |-> TRUE]

\* the bytes encode_command writes for one field
FieldBytes(type, value) ==
    IF type = "U8" THEN <<value % 256>>
    ELSE IF type = "U16" THEN <<(value \div 256) % 256, value % 256>>
    ELSE IF type = "U32"
    THEN <<(value \div 16777216) % 256, (value \div 65536) % 256,
           (value \div 256) % 256, value % 256>>
    ELSE value

RECURSIVE PayloadBytes(_, _, _)
PayloadBytes(layout, source, fi) ==
    IF fi > Len(layout) THEN <<>>
    ELSE FieldBytes(layout[fi], source[fi]) \o PayloadBytes(layout, source, fi + 1)

RECURSIVE calculate_payload_length(_, _, _)
calculate_payload_length(layout, source, i) ==
    IF i = 0 THEN 0
    ELSE (calculate_payload_length(layout, source, i - 1)
          + (IF layout[i] = "U8" THEN 1
             ELSE IF layout[i] = "U16" THEN 2
             ELSE IF layout[i] = "U32" THEN 4
             ELSE Len(source[i]) % U16)) % U16

\* the encoder's running sums after chk_add of the first len bytes
RECURSIVE chk_sums(_, _)
chk_sums(bytes, len) ==
    LET Next(prev, sum1) == [sum1 |-> sum1, sum2 |-> (prev.sum2 + sum1) % 255]
        After(prev) == Next(prev, (prev.sum1 + bytes[len]) % 255)
    IN
    IF len = 0 THEN [sum1 |-> 0, sum2 |-> 0]
    ELSE After(chk_sums(bytes, len - 1))

\* field_encoder::encode_command: [ok, out], out the bytes handed to the
\* output function
encode_command(layouts, opcode, source) ==
    LET layout == layouts[opcode + 1]
        Summed(body, sums) ==
            PACKET_SYNC \o body \o <<((sums.sum2 * 256 + sums.sum1) % U16) \div 256,
                                     ((sums.sum2 * 256 + sums.sum1) % U16) % 256>>
        Body(body) == Summed(body, chk_sums(body, Len(body)))
        Sized(payload_len) ==
            Body(<<opcode>>
                 \o (IF PACKET_LENGTH_16BIT
                     THEN <<(payload_len \div 256) % 256, payload_len % 256>>
                     ELSE <<payload_len % 256>>)
                 \o PayloadBytes(layout, source, 1))
    IN
    IF Len(layout) = 0 THEN [ok |-> FALSE, out |-> <<>>]
    ELSE [ok |-> TRUE, out |-> Sized(calculate_payload_length(layout, source, Len(layout)))]

\* field_decoder::decode_single_field on the payload data[1..data_len],
\* offset bytes of it consumed: [ok, offset, value]
decode_single_field(data, data_len, offset, type) ==
    IF type = "U8"
    THEN IF offset >= data_len THEN [ok |-> FALSE, offset |-> offset, value |-> 0]
         ELSE [ok |-> TRUE, offset |-> offset + 1, value |-> data[offset + 1]]
    ELSE IF type = "U16"
    THEN IF offset + 1 >= data_len THEN [ok |-> FALSE, offset |-> offset, value |-> 0]
         ELSE [ok |-> TRUE, offset |-> offset + 2,
               value |-> ((data[offset + 1] * 256) % U16) + data[offset + 2]]
    ELSE IF type = "U32"
    THEN IF offset + 3 >= data_len THEN [ok |-> FALSE, offset |-> offset, value |-> 0]
         ELSE [ok |-> TRUE, offset |-> offset + 4,
               value |-> data[offset + 1] * 16777216 + data[offset + 2] * 65536
                         + data[offset + 3] * 256 + data[offset + 4]]
    ELSE IF offset >= data_len THEN [ok |-> FALSE, offset |-> offset, value |-> <<>>]
         ELSE [ok |-> TRUE, offset |-> data_len, value |-> SubSeq(data, offset + 1, data_len)]

\* the loop of decode_fields from field field_idx on: [ok, target]
RECURSIVE DecodeFrom(_, _, _, _, _)
DecodeFrom(layout, pkt, field_idx, data_offset, target) ==
    LET Stored(r) ==
            IF ~r.ok THEN [ok |-> FALSE, target |-> target]
            ELSE DecodeFrom(layout, pkt, field_idx + 1, r.offset,
                            [target EXCEPT ![field_idx] = r.value])
    IN
    IF field_idx > Len(layout) THEN [ok |-> TRUE, target |-> target]
    ELSE Stored(decode_single_field(pkt.data, pkt.length, data_offset, layout[field_idx]))

\* field_decoder::decode_fields: [ok, target]
decode_fields(layouts, pkt, target) ==
    IF Len(layouts[pkt.opcode + 1]) = 0 THEN [ok |-> FALSE, target |-> target]
    ELSE DecodeFrom(layouts[pkt.opcode + 1], pkt, 1, 0, target)

NoLayouts == [o \in 1..OPCODE_SPACE |-> <<>>]

CodecIdle ==
    /\ enc_layouts_ = NoLayouts
    /\ dec_layouts_ = NoLayouts
    /\ source_struct = [opcode |-> 0, fields |-> <<>>]
    /\ wire = <<>>
    /\ target_struct = <<>>
    /\ cret = [op |-> "init", ok |-> TRUE]

ProtoIdle ==
    /\ parser_ = NewParser(MaxPayload)
    /\ candidates = {}
    /\ pret = [op |-> "init", data |-> 0, done |-> FALSE]

(***************************************************************************)
(* Cooperative scheduler (task/taskmaster.hpp)                             *)
(***************************************************************************)
priority_idle == 0
priority_critical == 4
Priorities == priority_idle..priority_critical
U32Max == 2147483647  \* stands for 0xFFFFFFFF, above every duration of the model

task_statistics ==
    [min_execution_time |-> U32Max, max_execution_time |-> 0, avg_execution_time |-> 0,
     missed_deadlines |-> 0, total_execution_time |-> 0]

task_control_block ==
    [id |-> invalid_task_id, function |-> FALSE, priority_level |-> 2, state |-> "idle",
     created_time |-> 0, last_run_time |-> 0, next_run_time |-> 0, period_ms |-> 0,
     execution_time |-> 0, deadline_ms |-> 0, run_count |-> 0, stats |-> task_statistics,
     is_native |-> FALSE]

\* the taskmaster object after construction
NewTaskmaster ==
    [next_task_id_ |-> invalid_task_id, initialized_ |-> FALSE,
     scheduler_start_time_ |-> 0, total_context_switches_ |-> 0]

\* index into tasks_ of the task with this id, 0 for nullptr
find_task(tasks, task_id) ==
    IF task_id >= Len(tasks) THEN 0
    ELSE IF tasks[task_id + 1].id = task_id THEN task_id + 1 ELSE 0

initialize(tm, tasks, current_time) ==
    IF tm.initialized_
    THEN [tm |-> tm, tasks |-> tasks, result |-> "already_exists"]
    ELSE [tm |-> [next_task_id_ |-> 0, initialized_ |-> TRUE,
                  scheduler_start_time_ |-> current_time, total_context_switches_ |-> 0],
          tasks |-> <<>>, result |-> "success"]

create_task(tm, tasks, cfg, current_time) ==
    IF ~tm.initialized_
    THEN [tm |-> tm, tasks |-> tasks, result |-> "not_initialized", id |-> invalid_task_id]
    ELSE IF Len(tasks) = MaxTasks
    THEN [tm |-> tm, tasks |-> tasks, result |-> "out_of_memory", id |-> invalid_task_id]
    ELSE [tm |-> [tm EXCEPT !.next_task_id_ = (@ + 1) % U16],
          tasks |-> Append(tasks, [task_control_block EXCEPT
                                      !.id = tm.next_task_id_,
                                      !.function = cfg.function,
                                      !.priority_level = cfg.priority_level,
                                      !.state = "ready",
                                      !.created_time = current_time,
                                      !.period_ms = cfg.period_ms,
                                      !.next_run_time = current_time]),
          result |-> "success", id |-> tm.next_task_id_]

start_task(tasks, task_id) ==
    LET At(i) ==
            IF i = 0 THEN [tasks |-> tasks, result |-> "not_found"]
            ELSE IF tasks[i].state = "suspended"
            THEN [tasks |-> [tasks EXCEPT ![i].state = "ready"], result |-> "success"]
            ELSE [tasks |-> tasks, result |-> "invalid_parameter"]
    IN At(find_task(tasks, task_id))

\* suspend_task without the store to state
suspend_task_kept(tasks, task_id) ==
    LET At(i) ==
            IF i = 0 THEN [tasks |-> tasks, result |-> "not_found"]
            ELSE [tasks |-> tasks, result |-> "success"]
    IN At(find_task(tasks, task_id))

suspend_task(tasks, task_id) ==
    LET At(i) ==
            IF i = 0 THEN [tasks |-> tasks, result |-> "not_found"]
            ELSE [tasks |-> [tasks EXCEPT ![i].state = "suspended"], result |-> "success"]
    IN At(find_task(tasks, task_id))

resume_task(tasks, task_id) == start_task(tasks, task_id)

\* the selection loop of run(): index of task_to_run after tasks 1..n, 0 for nullptr
RECURSIVE SelectTask(_, _, _)
SelectTask(tasks, current_time, n) ==
    IF n = 0 THEN [task_to_run |-> 0, highest_priority |-> priority_idle]
    ELSE LET Step(sel) ==
                 IF tasks[n].state # "ready" THEN sel
                 ELSE IF tasks[n].period_ms > 0 /\ current_time < tasks[n].next_run_time
                 THEN sel
                 ELSE IF tasks[n].priority_level > sel.highest_priority
                 THEN [task_to_run |-> n, highest_priority |-> tasks[n].priority_level]
                 ELSE sel
         IN Step(SelectTask(tasks, current_time, n - 1))

\* the task after its function ran from start_time to end_time inside run()
Executed(task, current_time, start_time, end_time) ==
    LET Measured(t) ==
            [t EXCEPT !.stats.min_execution_time = Min(t.execution_time, @),
                      !.stats.max_execution_time = Max(t.execution_time, @),
                      !.stats.total_execution_time = @ + t.execution_time,
                      !.stats.avg_execution_time =
                          (t.stats.total_execution_time + t.execution_time) \div t.run_count,
                      !.stats.missed_deadlines =
                          IF t.deadline_ms > 0 /\ t.execution_time > t.deadline_ms
                          THEN @ + 1 ELSE @]
        Rescheduled(t) ==
            IF t.period_ms > 0
            THEN [t EXCEPT !.next_run_time = current_time + t.period_ms, !.state = "ready"]
            ELSE [t EXCEPT !.state = "completed"]
    IN Rescheduled(Measured([task EXCEPT !.last_run_time = current_time,
                                        !.execution_time = end_time - start_time,
                                        !.run_count = @ + 1]))

\* run() when the task function takes exec_ms; executed is the index of the task run, 0 if none
run(tm, tasks, current_time, exec_ms) ==
    LET Selected(i) ==
            IF i # 0 /\ tasks[i].function
            THEN [tm |-> [tm EXCEPT !.total_context_switches_ = @ + 1],
                  tasks |-> [tasks EXCEPT ![i] = Executed(tasks[i], current_time, current_time,
                                                          current_time + exec_ms)],
                  executed |-> i, time |-> current_time + exec_ms]
            ELSE [tm |-> tm, tasks |-> tasks, executed |-> 0, time |-> current_time + 1]
    IN IF ~tm.initialized_
       THEN [tm |-> tm, tasks |-> tasks, executed |-> 0, time |-> current_time]
       ELSE Selected(SelectTask(tasks, current_time, Len(tasks)).task_to_run)

TaskIdle ==
    /\ tasks_ = <<>>
    /\ taskmaster_ = NewTaskmaster
    /\ time_ms = 0
    /\ tret = [op |-> "init", id |-> 0, result |-> "success", executed |-> 0]

(***************************************************************************)
(* Blocking receive and the task notification (message_broker.hpp,         *)
(* platform notify_task / wait_notification / clear_notification)          *)
(***************************************************************************)
Senders == {2, 3}

\* the owner outside receive
ReceiverIdle == [pc |-> "idle", timeout_ms |-> 0, waited |-> 0, woken |-> FALSE, msg |-> NoMsg]

WaitIdle ==
    /\ notification = FALSE
    /\ sender_pc = [s \in Senders |-> "idle"]
    /\ receiver_ = ReceiverIdle
    /\ wret = [code |-> "init", msg |-> NoMsg, timeout_ms |-> 0, waited |-> 0, woken |-> FALSE]
    /\ received_tags = {}
    /\ dropped_tags = {}

(***************************************************************************)
(* Mailbox capacities of a build (message_broker.hpp, core/config.hpp)     *)
(***************************************************************************)
\* the default build: EMCORE_MSG_QUEUE_CAPACITY 4, one topic queue per
\* mailbox, high ratio 1/4
DefaultConfig ==
    [queue_capacity |-> queue_capacity, topic_slots |-> 1,
     high_ratio_num |-> default_topic_high_ratio_num,
     high_ratio_den |-> default_topic_high_ratio_den]

BuildIdle ==
    /\ config_ = DefaultConfig
    /\ depth_limit_ = queue_capacity
    /\ depth_arg_ = -1

(***************************************************************************)
(* command_dispatcher (protocol/command_dispatcher.hpp)                    *)
(***************************************************************************)
MaxHandlers == 2

nullptr == 0

NoEntry == [opcode |-> 0, fn |-> nullptr, used |-> FALSE]

NewDispatcher ==
    [table_ |-> [i \in 1..MaxHandlers |-> NoEntry], size_ |-> 0, unknown_ |-> nullptr]

\* index (1-based) of the first live entry of opcode among the first size_, 0 when none
find_handler(d, opcode) ==
    LET hits == {i \in 1..d.size_ : d.table_[i].used /\ d.table_[i].opcode = opcode} IN
    IF hits = {} THEN 0 ELSE CHOOSE i \in hits : \A j \in hits : i <= j

try_register_handler(d, opcode, fn) ==
    LET i == find_handler(d, opcode) IN
    IF i # 0
    THEN [d |-> [d EXCEPT !.table_[i].fn = fn], result |-> "ok_replaced"]
    ELSE IF d.size_ >= MaxHandlers
    THEN [d |-> d, result |-> "full"]
    ELSE [d |-> [d EXCEPT !.table_[d.size_ + 1] = [opcode |-> opcode, fn |-> fn, used |-> TRUE],
                          !.size_ = d.size_ + 1],
          result |-> "ok_new"]

\* a removal that forgets to move the last live entry into the freed slot
deregister_handler_drop_last(d, opcode) ==
    LET i == find_handler(d, opcode) IN
    IF i # 0
    THEN [d |-> [d EXCEPT !.table_[d.size_] = NoEntry, !.size_ = d.size_ - 1], result |-> TRUE]
    ELSE [d |-> d, result |-> FALSE]

deregister_handler(d, opcode) ==
    LET i == find_handler(d, opcode)
        moved == [d.table_ EXCEPT ![i] = d.table_[d.size_]] IN
    IF i # 0
    THEN [d |-> [d EXCEPT !.table_ = [moved EXCEPT ![d.size_] = NoEntry],
                          !.size_ = d.size_ - 1],
          result |-> TRUE]
    ELSE [d |-> d, result |-> FALSE]

has_handler(d, opcode) == find_handler(d, opcode) # 0

get_handler(d, opcode) ==
    IF find_handler(d, opcode) # 0 THEN d.table_[find_handler(d, opcode)].fn ELSE nullptr

set_unknown_handler(d, fn) == [d EXCEPT !.unknown_ = fn]

clear(d) == NewDispatcher

\* the handlers dispatch calls for a packet of this opcode, in call order
dispatch(d, opcode) ==
    LET i == find_handler(d, opcode) IN
    IF i # 0
    THEN (IF d.table_[i].fn # nullptr THEN <<d.table_[i].fn>> ELSE <<>>)
    ELSE (IF d.unknown_ # nullptr THEN <<d.unknown_>> ELSE <<>>)

DispatcherIdle ==
    /\ dispatcher_ = NewDispatcher
    /\ dret = [op |-> "init", opcode |-> 0, fn |-> nullptr, result |-> "none", invoked |-> <<>>]

(***************************************************************************)
(* byte_ring (protocol/byte_ring.hpp)                                      *)
(***************************************************************************)
RingCapacity == 3

next_index(i) == (i + 1) % RingCapacity

\* buf_{} is zero-initialised; cells are indexed 0..Capacity-1
NewRing == [buf_ |-> [i \in 0..(RingCapacity - 1) |-> 0], head_ |-> 0, tail_ |-> 0]

empty(r) == r.head_ = r.tail_

full(r) == next_index(r.head_) = r.tail_

ProducerIdle == [pc |-> "idle", b |-> 0, head |-> 0, next |-> 0, ret |-> "none"]

ConsumerIdle == [pc |-> "idle", tail |-> 0, out |-> 0, ret |-> "none"]

RingIdle ==
    /\ ring_ = NewRing
    /\ producer_ = ProducerIdle
    /\ consumer_ = ConsumerIdle
    /\ pushed = <<>>
    /\ popped = <<>>
    /\ ring_calls = [push |-> 0, pop |-> 0]
    /\ in_order = TRUE

(***************************************************************************)
(* zero_copy_pool and zc_handle (messaging/zero_copy.hpp)                  *)
(***************************************************************************)
BlockCount == 2
BlockSize == 1
NumSlots == 2

no_index == U16 - 1
refs_max == U16 - 1

Blocks == 0..(BlockCount - 1)
Slots == 1..NumSlots

\* zero_copy_pool::initialize
NewPool ==
    [nodes_ |-> [i \in Blocks |->
                    [size |-> 0, refs |-> 0,
                     next |-> IF i = BlockCount - 1 THEN no_index ELSE i + 1,
                     in_use |-> FALSE]],
     free_head_ |-> 0]

\* zc_handle(): pool_ = nullptr, stands for no handle at all when ~alive
NullHandle == [alive |-> TRUE, pool_ |-> FALSE, index_ |-> no_index, size_ |-> 0]
NoHandle == [alive |-> FALSE, pool_ |-> FALSE, index_ |-> no_index, size_ |-> 0]

valid(h) == h.pool_ /\ h.index_ # no_index

add_ref(pool, index) ==
    IF index < BlockCount /\ pool.nodes_[index].in_use /\ pool.nodes_[index].refs # refs_max
    THEN [pool EXCEPT !.nodes_[index].refs = @ + 1]
    ELSE pool

\* a release that frees the block whatever the count was
release_always_frees(pool, index) ==
    IF index < BlockCount /\ pool.nodes_[index].in_use /\ pool.nodes_[index].refs > 0
    THEN [pool EXCEPT !.nodes_[index].refs = @ - 1,
                      !.nodes_[index].in_use = FALSE,
                      !.nodes_[index].next = pool.free_head_,
                      !.free_head_ = index]
    ELSE pool

release(pool, index) ==
    IF index < BlockCount /\ pool.nodes_[index].in_use /\ pool.nodes_[index].refs > 0
    THEN IF pool.nodes_[index].refs - 1 = 0
         THEN [pool EXCEPT !.nodes_[index].refs = 0,
                           !.nodes_[index].in_use = FALSE,
                           !.nodes_[index].next = pool.free_head_,
                           !.free_head_ = index]
         ELSE [pool EXCEPT !.nodes_[index].refs = @ - 1]
    ELSE pool

\* zc_handle::add_ref_ and release_
handle_add_ref(pool, h) == IF valid(h) THEN add_ref(pool, h.index_) ELSE pool
handle_release(pool, h) == IF valid(h) THEN release(pool, h.index_) ELSE pool

\* [pool, handle]: the handle allocate returns, built by the private
\* constructor, which takes the first reference
allocate(pool, size) ==
    IF size > BlockSize THEN [pool |-> pool, handle |-> NullHandle]
    ELSE IF pool.free_head_ = no_index THEN [pool |-> pool, handle |-> NullHandle]
    ELSE LET idx == pool.free_head_
             taken == [pool EXCEPT !.free_head_ = pool.nodes_[idx].next,
                                   !.nodes_[idx].size = size,
                                   !.nodes_[idx].refs = 0,
                                   !.nodes_[idx].in_use = TRUE,
                                   !.nodes_[idx].next = no_index]
             h == [alive |-> TRUE, pool_ |-> TRUE, index_ |-> idx, size_ |-> size] IN
         [pool |-> handle_add_ref(taken, h), handle |-> h]

\* k copy constructions of one handle, one add_ref each
add_ref_times(pool, index, k) ==
    IF index < BlockCount /\ pool.nodes_[index].in_use
    THEN [pool EXCEPT !.nodes_[index].refs = Min(@ + k, refs_max)]
    ELSE pool

\* k destructions of handles on one block, one release each: the count
\* falls by one per call until the call that frees the block, after which
\* in_use is false and the remaining calls do nothing
release_times(pool, index, k) ==
    IF k = 0 THEN pool
    ELSE IF index < BlockCount /\ pool.nodes_[index].in_use /\ pool.nodes_[index].refs > k
    THEN [pool EXCEPT !.nodes_[index].refs = @ - k]
    ELSE IF index < BlockCount /\ pool.nodes_[index].in_use /\ pool.nodes_[index].refs > 0
    THEN release([pool EXCEPT !.nodes_[index].refs = 1], index)
    ELSE pool

PoolIdle ==
    /\ zc_pool_ = NewPool
    /\ handles_ = [h \in Slots |-> NoHandle]
    /\ held_ = [b \in Blocks |-> 0]
    /\ zc_ops = 0
    /\ zret = [op |-> "init", slot |-> 0, over |-> FALSE]

(***************************************************************************)
(* distributed_state (messaging/distributed_state.hpp)                     *)
(***************************************************************************)
\* distributed_state(broker, self_task_id, initial): state_, pending_{}, local_seq_{1}
NewDistributedState(initial) == [state_ |-> initial, pending_ |-> <<>>, local_seq_ |-> 1]

DsIdle ==
    /\ ds_ = NewDistributedState(0)
    /\ ds_sent = <<>>
    /\ ds_acked = <<>>
    /\ ds_commits = <<>>
    /\ ds_ops = 0

(***************************************************************************)
(* Memory budget and layout (memory/budget.hpp, memory/layout.hpp)         *)
(***************************************************************************)
RegionNames == <<"messaging", "events", "tasks", "os", "protocol", "diagnostics">>

NoLayout == [computed |-> FALSE]

LayoutIdle ==
    /\ uppers_ = [messaging |-> 0, events |-> 0, tasks |-> 0, os |-> 0, protocol |-> 0,
                  diagnostics |-> 0, pools |-> 0]
    /\ budget_ = [budget |-> 0, headroom |-> 0]
    /\ kLayout = NoLayout

(***************************************************************************)
(* event_bus (event/event_bus.hpp)                                         *)
(***************************************************************************)
\* event_bus(): no handlers, empty queue, initialized_{false}
NewBus == [handlers_ |-> <<>>, queue_ |-> <<>>, initialized_ |-> FALSE]

EventIdle ==
    /\ bus_ = NewBus
    /\ bret = [op |-> "init", ok |-> TRUE, calls |-> <<>>]

PipeIdle ==
    /\ pipe_ = [ring |-> NewRing, parser |-> NewParser(MaxPayload)]
    /\ pipe_src = <<>>
    /\ pipe_fed = <<>>
    /\ pipe_out = <<>>
    /\ pipe_ret = [op |-> "init", limit |-> 0, packets |-> 0, bytes |-> 0]

SyncIdle ==
    /\ sync_ = [SyncPattern |-> PACKET_SYNC, state_ |-> "SYNC", sync_index_ |-> 0]
    /\ sync_fed = <<>>

WdIdle ==
    /\ watchdog_ = <<>>
    /\ wd_now = 0
    /\ wd_ret = [op |-> "init"]

OsIdle == os_calls = [notify_task |-> FALSE, clear_notification |-> FALSE]

LateIdle == EventIdle /\ PipeIdle /\ SyncIdle /\ WdIdle /\ OsIdle

SysIdle == BuildIdle /\ DispatcherIdle /\ RingIdle /\ PoolIdle /\ DsIdle /\ LayoutIdle /\ LateIdle

ExtIdle == ProtoIdle /\ CodecIdle /\ TaskIdle /\ WaitIdle /\ SysIdle

messagingVars == <<brokerVars, now, ghostVars, ret, qosVars>>

baseVars == <<messagingVars, protoVars, codecVars, taskVars, waitVars, lateVars>>
earlyVars == <<messagingVars, protoVars, codecVars, taskVars, waitVars,
               buildVars, dispatcherVars, ringVars, poolVars, dsVars, layoutVars>>
outsideEvent == <<earlyVars, pipeVars, syncVars, wdVars, osVars>>
outsidePipe == <<earlyVars, eventVars, syncVars, wdVars, osVars>>
outsideSync == <<earlyVars, eventVars, pipeVars, wdVars, osVars>>
outsideWd == <<earlyVars, eventVars, pipeVars, syncVars, osVars>>
outsideBuild == <<baseVars, dispatcherVars, ringVars, poolVars, dsVars, layoutVars>>
outsideDispatcher == <<baseVars, buildVars, ringVars, poolVars, dsVars, layoutVars>>
outsideRing == <<baseVars, buildVars, dispatcherVars, poolVars, dsVars, layoutVars>>
outsidePool == <<baseVars, buildVars, dispatcherVars, ringVars, dsVars, layoutVars>>
outsideDs == <<baseVars, buildVars, dispatcherVars, ringVars, poolVars, layoutVars>>
outsideLayout == <<baseVars, buildVars, dispatcherVars, ringVars, poolVars, dsVars>>

QosIdle ==
    /\ pending_ = <<>>
    /\ local_seq_ = 1
    /\ last_seq_ = <<>>
    /\ accepted = {}
    /\ delivered = <<>>
    /\ raws = 0
    /\ ticks = 0

Constructed ==
    /\ mailboxes_ = <<>>
    /\ topics_ = <<>>
    /\ sequence_ = 0
    /\ sent_count_ = 0
    /\ received_count_ = 0
    /\ dropped_count_ = 0
    /\ now = 0
    /\ pubs = 0
    /\ publog = <<>>
    /\ lost = {}
    /\ ret = Ret("init", 0, 0, "success", NoMsg)

\* the messaging objects, constructed and left alone
MessagingIdle ==
    /\ topic_slots = 1
    /\ Constructed
    /\ QosIdle

RegisterTask(t) ==
    LET r == register_task(mailboxes_, t, 0) IN
    /\ mailboxes_' = r.mbs
    /\ ret' = Ret("register_task", t, 0, r.code, NoMsg)
    /\ UNCHANGED <<topic_slots, topics_, sequence_, statVars, now, ghostVars, qosVars, extVars>>

Subscribe(topic, t) ==
    LET r == subscribe(topics_, topic, t) IN
    /\ topics_' = r.ts
    /\ ret' = Ret("subscribe", t, topic, r.code, NoMsg)
    /\ UNCHANGED <<topic_slots, mailboxes_, sequence_, statVars, now, ghostVars, qosVars, extVars>>

SetTopicCapacity(topic, max_subs) ==
    LET r == set_topic_capacity(topics_, topic, max_subs) IN
    /\ topics_' = r.ts
    /\ ret' = Ret("set_topic_capacity", max_subs, topic, r.code, NoMsg)
    /\ UNCHANGED <<topic_slots, mailboxes_, sequence_, statVars, now, ghostVars, qosVars, extVars>>

SetOverflowPolicy(t, drop_oldest) ==
    LET r == set_overflow_policy(mailboxes_, t, drop_oldest) IN
    /\ mailboxes_' = r.mbs
    /\ ret' = Ret("set_overflow_policy", t, 0, r.code, NoMsg)
    /\ UNCHANGED <<topic_slots, topics_, sequence_, statVars, now, ghostVars, qosVars, extVars>>

SetMailboxDepth(t, depth) ==
    LET r == set_mailbox_depth(mailboxes_, t, depth) IN
    /\ mailboxes_' = r.mbs
    /\ ret' = Ret("set_mailbox_depth", t, 0, r.code, NoMsg)
    /\ UNCHANGED <<topic_slots, topics_, sequence_, statVars, now, ghostVars, qosVars, extVars>>

\* the normal-priority messages a publish call lost at some mailbox
LostBy(r, msg) ==
    {<<d[1], d[2].sender_id, d[2].type>> : d \in {x \in r.drops : ~is_urgent(x[2])}}
    \cup (IF is_urgent(msg) THEN {} ELSE {<<s, r.msg.sender_id, r.msg.type>> : s \in r.refused})

\* publish(topic, msg, from) of the message number pubs
PublishCall(topic, kind, from) ==
    LET msg == NewMessage(kind[1], kind[2], pubs)
        Returned(r) ==
            /\ mailboxes_' = r.b.mailboxes_
            /\ sequence_' = r.b.sequence_
            /\ sent_count_' = r.b.sent_count_
            /\ dropped_count_' = r.b.dropped_count_
            /\ lost' = lost \cup LostBy(r, msg)
            /\ ret' = Ret("publish", from, topic, r.code, r.msg)
    IN
    /\ Returned(publish(Broker, topic, msg, from, now))
    /\ pubs' = pubs + 1
    /\ UNCHANGED <<topic_slots, topics_, received_count_, now, qosVars, extVars>>

Publish(topic, kind, from) ==
    /\ pubs < MaxPub
    /\ PublishCall(topic, kind, from)
    /\ UNCHANGED publog

TryReceive(t) ==
    LET Returned(r) ==
            /\ mailboxes_' = r.mbs
            /\ received_count_' = Counted(r.code)
            /\ ret' = Ret("try_receive", t, 0, r.code, r.msg)
    IN
    /\ Returned(try_receive(mailboxes_, t))
    /\ UNCHANGED <<topic_slots, topics_, sequence_, sent_count_, dropped_count_, now,
                   ghostVars, qosVars, extVars>>

(***************************************************************************)
(* SpecBroker: one subscriber task, two publishers, two topics, for builds *)
(* with one or two topic slots per mailbox.  Tasks are registered and      *)
(* subscribed before the first publish; publishes, receives and policy     *)
(* changes interleave freely.  Task 0 publishes every kind of message,     *)
(* task 1 publishes normal-priority messages.                              *)
(***************************************************************************)
InitBroker ==
    /\ topic_slots \in {1, 2}
    /\ Constructed
    /\ QosIdle
    /\ ExtIdle

NextBroker ==
    \/ \E t \in TaskIds : pubs = 0 /\ RegisterTask(t)
    \/ \E topic \in Topics, t \in TaskIds : pubs = 0 /\ Subscribe(topic, t)
    \/ \E t \in TaskIds, b \in BOOLEAN : SetOverflowPolicy(t, b)
    \/ \E topic \in Topics, kind \in Kinds : Publish(topic, kind, 0)
    \/ \E topic \in Topics : Publish(topic, <<priority_normal, {}>>, 1)
    \/ \E t \in TaskIds : TryReceive(t)

SpecBroker == InitBroker /\ [][NextBroker]_vars

(***************************************************************************)
(* Observations on a mailbox                                               *)
(***************************************************************************)
\* the mailbox of task t (a fresh one when the task has none)
MailboxIn(mbs, t) ==
    IF find_mailbox(mbs, t) = 0 THEN NewMailbox ELSE mbs[find_mailbox(mbs, t)]

MailboxOf(t) == MailboxIn(mailboxes_, t)

\* the messages successive receive calls return when nothing else is sent
RECURSIVE DrainOrder(_)
DrainOrder(mb) ==
    LET r == MailboxReceive(mb) IN
    IF r.code = "success" THEN <<r.msg>> \o DrainOrder(r.mb) ELSE <<>>

Held(mb) == SeqElems(DrainOrder(mb))

\* the normal-priority messages of publisher P on topic X, in the order receive returns them
NormalOf(d, P, X) ==
    SelectSeq(d, LAMBDA m : ~is_urgent(m) /\ m.sender_id = P /\ m.type = X)

\* payload tags are handed out in publish order
InPublishOrder(d) ==
    \A i, j \in 1..Len(d) : i < j => d[i].payload < d[j].payload

(***************************************************************************)
(* C1 (as stated): for every publisher P, topic X and subscriber S, if     *)
(* none of P's normal-priority messages on X was dropped from or refused   *)
(* by S's mailbox, S's receives return P's normal-priority messages on X   *)
(* in publish order.                                                       *)
(***************************************************************************)
C1_FifoUnlessOwnDrop ==
    \A s \in TaskIds, P \in {0, 1}, X \in Topics :
        (<<s, P, X>> \notin lost) => InPublishOrder(NormalOf(DrainOrder(MailboxOf(s)), P, X))

(***************************************************************************)
(* C2 (as stated): a receive never returns a normal-priority message while *)
(* the mailbox holds an urgent message (urgent flag or priority >= high)   *)
(* of the same topic, whatever sends and receives came before.             *)
(***************************************************************************)
C2_UrgentBeforeNormal ==
    (ret.op = "try_receive" /\ ret.code = "success" /\ ~is_urgent(ret.msg))
        => ~\E m \in Held(MailboxOf(ret.task)) : is_urgent(m) /\ m.type = ret.msg.type

(***************************************************************************)
(* SpecFanout: the default build (one topic slot per mailbox, capacity 4   *)
(* split 1 high + 3 normal).  Tasks 1..3 are registered, configured and    *)
(* subscribed to topic 7, then task 0 publishes a burst of normal and      *)
(* urgent messages, then the subscribers drain their mailboxes.            *)
(***************************************************************************)
\* the fan-out scenarios use the lower of the two topics
FanoutTopic == CHOOSE t \in Topics : \A u \in Topics : t <= u

NoReceiveYet == \A t \in FanoutTasks : MailboxOf(t).received_count = 0

PublishLogged(topic, kind, from) ==
    /\ pubs < MaxFanoutPub
    /\ NoReceiveYet
    /\ PublishCall(topic, kind, from)
    /\ publog' = Append(publog, <<topic, is_urgent(NewMessage(kind[1], kind[2], pubs))>>)

InitFanout ==
    /\ topic_slots = 1
    /\ Constructed
    /\ QosIdle
    /\ ExtIdle

NextFanout ==
    \/ \E t \in FanoutTasks : pubs = 0 /\ RegisterTask(t)
    \/ \E t \in FanoutTasks : pubs = 0 /\ Subscribe(FanoutTopic, t)
    \/ \E t \in FanoutTasks, b \in BOOLEAN : pubs = 0 /\ SetOverflowPolicy(t, b)
    \/ \E kind \in FanoutKinds : PublishLogged(FanoutTopic, kind, 0)
    \/ \E t \in FanoutTasks : TryReceive(t)

SpecFanout == InitFanout /\ [][NextFanout]_vars

Payloads(d) == [i \in 1..Len(d) |-> d[i].payload]

\* s drops the first k elements
DropFirst(s, k) == IF k >= Len(s) THEN <<>> ELSE SubSeq(s, k + 1, Len(s))

\* task s has a mailbox with the drop-oldest policy and is subscribed to the topic
Subscribed(s) ==
    /\ find_mailbox(mailboxes_, s) # 0
    /\ MailboxOf(s).overflow_drop_oldest
    /\ find_topic(topics_, FanoutTopic) # 0
    /\ s \in SeqElems(topics_[find_topic(topics_, FanoutTopic)].subscriber_ids)

FourNormalThenUrgent ==
    publog = <<<<FanoutTopic, FALSE>>, <<FanoutTopic, FALSE>>, <<FanoutTopic, FALSE>>,
               <<FanoutTopic, FALSE>>, <<FanoutTopic, TRUE>>>>

(***************************************************************************)
(* C3 (as stated): after tasks 1, 2 and 3 subscribed and four normal       *)
(* messages (tags 0..3) and one urgent message (tag 4) were published,     *)
(* each subscriber's receives return tag 4 and then tags 0, 1, 2, 3.       *)
(***************************************************************************)
C3_UrgentThenFourNormals ==
    (FourNormalThenUrgent /\ \A s \in FanoutTasks : Subscribed(s))
        => \A s \in FanoutTasks :
              Payloads(DrainOrder(MailboxOf(s)))
                  = DropFirst(<<4, 0, 1, 2, 3>>, MailboxOf(s).received_count)

(***************************************************************************)
(* C3 (amended): in that scenario the fourth normal message finds the      *)
(* normal sub-queue (capacity 3) full and the oldest normal message is     *)
(* dropped: each subscriber's receives return the urgent message (tag 4)   *)
(* and then the last three normal messages in publish order (tags 1, 2,    *)
(* 3), and dropped_overflow is 1.                                          *)
(***************************************************************************)
C3_UrgentThenLastThreeNormals ==
    (FourNormalThenUrgent /\ \A s \in FanoutTasks : Subscribed(s))
        => \A s \in FanoutTasks :
              /\ Payloads(DrainOrder(MailboxOf(s)))
                     = DropFirst(<<4, 1, 2, 3>>, MailboxOf(s).received_count)
              /\ MailboxOf(s).dropped_overflow = 1

\* every subscriber has drained its mailbox after the scenario's publishes
C3_Witness ==
    /\ FourNormalThenUrgent
    /\ \A s \in FanoutTasks :
          Subscribed(s) /\ MailboxOf(s).received_count = 4 /\ is_empty_unlocked(MailboxOf(s))
    /\ ret.op = "try_receive" /\ ret.code = "success" /\ ret.msg.payload = 3

AllNormal == \A i \in 1..Len(publog) : publog[i] = <<FanoutTopic, FALSE>>

TotalCapacity == topic_slots * (high_capacity + normal_capacity)


\* the tags first..last-1 in order
Tags(first, last) == [i \in 1..(last - first) |-> first + i - 1]

(***************************************************************************)
(* C4 (as stated): with the drop-oldest policy, after C+1 normal messages  *)
(* (tags 0..C) were published to a subscriber whose empty mailbox has      *)
(* total capacity C, exactly the oldest was dropped: the receives return   *)
(* tags 1..C in order and dropped_overflow is 1.                           *)
(***************************************************************************)
C4_DropsExactlyOne ==
    \A s \in FanoutTasks :
        (AllNormal /\ Len(publog) = TotalCapacity + 1 /\ Subscribed(s))
            => /\ Payloads(DrainOrder(MailboxOf(s)))
                      = DropFirst(Tags(1, TotalCapacity + 1), MailboxOf(s).received_count)
               /\ MailboxOf(s).dropped_overflow = 1

(***************************************************************************)
(* C4 (amended): with the drop-oldest policy, after k normal messages      *)
(* (tags 0..k-1) were published to a subscriber whose empty mailbox has    *)
(* normal sub-queue capacity N, every publish beyond the N-th dropped the  *)
(* oldest queued message: the receives return the last min(k, N) tags in   *)
(* publish order and dropped_overflow is max(k - N, 0).  For N + 1         *)
(* publishes exactly one message is dropped; for total capacity 4 (N = 3)  *)
(* and five publishes the receives return tags 2, 3, 4 and                 *)
(* dropped_overflow is 2.                                                  *)
(***************************************************************************)
C4_DropsOnePerPublishBeyondNormalCapacity ==
    \A s \in FanoutTasks :
        (AllNormal /\ Subscribed(s))
            => /\ Payloads(DrainOrder(MailboxOf(s)))
                      = DropFirst(Tags(Max(Len(publog) - normal_capacity, 0), Len(publog)),
                                  MailboxOf(s).received_count)
               /\ MailboxOf(s).dropped_overflow = Max(Len(publog) - normal_capacity, 0)

\* five normal messages were published and a subscriber drained its mailbox
C4_Witness ==
    \E s \in FanoutTasks :
        /\ AllNormal /\ Len(publog) = TotalCapacity + 1 /\ Subscribed(s)
        /\ MailboxOf(s).dropped_overflow = 2
        /\ MailboxOf(s).received_count = 3 /\ is_empty_unlocked(MailboxOf(s))
        /\ ret.op = "try_receive" /\ ret.task = s /\ ret.msg.payload = 4

(***************************************************************************)
(* SpecPublish: two subscriber tasks, two topics, in a build with two      *)
(* topic slots per mailbox; tasks are registered and subscribed, and the   *)
(* capacity of one topic is set to 0, before the first publish; task 0     *)
(* then publishes normal and persistent messages while the subscribers     *)
(* receive.                                                                *)
(***************************************************************************)
PublishTasks == {1, 2}
PublishKinds == {<<priority_normal, {}>>, <<priority_normal, {"persistent"}>>}

PublishBounded(topic, kind, from) ==
    /\ pubs < MaxPublishCalls
    /\ PublishCall(topic, kind, from)
    /\ UNCHANGED publog

InitPublish ==
    /\ topic_slots = 2
    /\ Constructed
    /\ QosIdle
    /\ ExtIdle

NextPublish ==
    \/ \E t \in PublishTasks : pubs = 0 /\ RegisterTask(t)
    \/ \E topic \in Topics, t \in PublishTasks : pubs = 0 /\ Subscribe(topic, t)
    \/ pubs = 0 /\ SetTopicCapacity(9, 0)
    \/ \E topic \in Topics, kind \in PublishKinds : PublishBounded(topic, kind, 0)
    \/ \E t \in PublishTasks : TryReceive(t)

SpecPublish == InitPublish /\ [][NextPublish]_vars

\* the subscribers of a topic
SubscribersOf(topic) ==
    IF find_topic(topics_, topic) = 0 THEN {}
    ELSE SeqElems(topics_[find_topic(topics_, topic)].subscriber_ids)

\* the subscribers whose mailbox holds the message with payload tag
AcceptedBy(topic, tag) ==
    {s \in SubscribersOf(topic) : \E m \in Held(MailboxOf(s)) : m.payload = tag}

(***************************************************************************)
(* C5: right after publish(topic, msg, from) returned, its return value is *)
(* success if and only if the mailbox of at least one subscriber of the    *)
(* topic took the message; it is not_found when the topic is unknown or    *)
(* has no subscribers, and an error other than success when the topic has  *)
(* subscribers and none of their mailboxes took the message.               *)
(***************************************************************************)
C5_PublishReturn ==
    ret.op = "publish" =>
        /\ ret.code = "success" <=> AcceptedBy(ret.topic, ret.msg.payload) # {}
        /\ SubscribersOf(ret.topic) = {} => ret.code = "not_found"
        /\ (SubscribersOf(ret.topic) # {} /\ AcceptedBy(ret.topic, ret.msg.payload) = {})
               => ret.code \notin {"success", "not_found"}

\* a publish returned success although the mailbox of one of the two
\* subscribers refused the message
C5_Witness ==
    /\ ret.op = "publish" /\ ret.code = "success"
    /\ Cardinality(SubscribersOf(ret.topic)) = 2
    /\ \A s \in SubscribersOf(ret.topic) : find_mailbox(mailboxes_, s) # 0
    /\ Cardinality(AcceptedBy(ret.topic, ret.msg.payload)) = 1

(***************************************************************************)
(* qos_publisher                                                           *)
(***************************************************************************)
\* the tasks of the QoS scenario: the publisher (from_task_id_), the subscriber
\* (self_task_id_) and a task that publishes to the data topic on its own
QosTasks == <<1, 2, 3>>
QosPublisherTask == QosTasks[1]
QosSubscriberTask == QosTasks[2]
OtherSender == QosTasks[3]

\* the data topic and the ACK topic (ack_topic_id_ of publisher and subscriber)
QosTopics == <<9, 15>>
DataTopic == QosTopics[1]
AckTopic == QosTopics[2]

\* a map with the entry key -> value added or replaced
MapPut(m, key, value) ==
    [k \in (DOMAIN m) \cup {key} |-> IF k = key THEN value ELSE m[k]]

MapErase(m, key) == [k \in (DOMAIN m) \ {key} |-> m[k]]

\* the keys of a map in increasing order, as etl::map iterates
RECURSIVE SortedKeys(_)
SortedKeys(keys) ==
    IF keys = {} THEN <<>>
    ELSE LET k == CHOOSE x \in keys : \A y \in keys : x <= y
         IN <<k>> \o SortedKeys(keys \ {k})

next_seq_(local_seq) == local_seq % U16

\* a pending map that never reports full
pending_never_full(pend) == FALSE

\* pending_.full()
pending_full(pend) == Cardinality(DOMAIN pend) >= PendingLimit

\* qos_publisher::publish on q = [pending_, local_seq_] and the broker b:
\* [q, b, msg, code, forwarded]
qos_publish(q, b, topic_id, msg, time) ==
    LET seq == IF msg.sequence_number = 0 THEN next_seq_(q.local_seq_)
               ELSE msg.sequence_number
        q1 == [q EXCEPT !.local_seq_ = IF msg.sequence_number = 0 THEN @ + 1 ELSE @]
        m == [msg EXCEPT !.flags = @ \cup {"requires_ack"},
                         !.timestamp = IF @ = 0 THEN time ELSE @,
                         !.sequence_number = seq,
                         !.type = topic_id]
        new_entry == [msg |-> m, last_send |-> m.timestamp, attempts |-> 1]
        Forwarded(r) ==
            [q |-> [q1 EXCEPT !.pending_ = MapPut(@, seq, new_entry)],
             b |-> r.b, msg |-> r.msg, code |-> r.code, forwarded |-> TRUE]
    IN
    IF pending_full(q.pending_)
    THEN [q |-> q1, b |-> b, msg |-> m, code |-> "out_of_memory", forwarded |-> FALSE]
    ELSE IF seq \in DOMAIN q.pending_
    THEN [q |-> q1, b |-> b, msg |-> m, code |-> "out_of_memory", forwarded |-> FALSE]
    ELSE Forwarded(publish(b, topic_id, m, QosPublisherTask, time))

\* every entry counts as due
IsDueAlways(entry, time) == TRUE

\* is the entry due for retransmission at time; last_send is a reading of the
\* monotonic clock and never exceeds time, so the u64 difference does not wrap
IsDue(entry, time) ==
    (time - entry.last_send) >= default_ack_timeout_us

\* the loop of pump_retransmit over the keys keys[i..]: [pending_, b, sent]
RECURSIVE PumpFrom(_, _, _, _, _)
PumpFrom(pend, b, keys, i, time) ==
    LET \* the entry keys[i] was published again, with result r
        Resent(k, r) ==
            LET Rest(rest) == [rest EXCEPT !.sent = <<k>> \o @] IN
            Rest(PumpFrom([pend EXCEPT ![k] = [msg |-> r.msg, last_send |-> time,
                                               attempts |-> (pend[k].attempts + 1) % U16]],
                          r.b, keys, i + 1, time))
    IN
    IF i > Len(keys) THEN [pending_ |-> pend, b |-> b, sent |-> <<>>]
    ELSE IF IsDue(pend[keys[i]], time)
    THEN Resent(keys[i],
                publish(b, pend[keys[i]].msg.type, pend[keys[i]].msg, QosPublisherTask, time))
    ELSE PumpFrom(pend, b, keys, i + 1, time)

\* qos_publisher::pump_retransmit: [pending_, b, sent]
pump_retransmit(pend, b, time) ==
    PumpFrom(pend, b, SortedKeys(DOMAIN pend), 1, time)

\* an on_ack that clears the whole map
on_ack_clear(pend, ack) == <<>>

\* qos_publisher::on_ack
on_ack(pend, ack) ==
    IF ack.sequence_number \in DOMAIN pend THEN MapErase(pend, ack.sequence_number) ELSE pend

\* qos_publisher::try_handle_ack_message: [pending_, handled]
try_handle_ack_message(pend, msg) ==
    IF msg.type # AckTopic THEN [pending_ |-> pend, handled |-> FALSE]
    ELSE IF msg.payload_size # sizeof_message_ack THEN [pending_ |-> pend, handled |-> FALSE]
    ELSE [pending_ |-> on_ack(pend, msg.payload), handled |-> TRUE]

(***************************************************************************)
(* qos_subscriber                                                          *)
(***************************************************************************)
\* qos_subscriber::send_ack_: the broker after the ACK was published
send_ack_(b, seq, to_sender, time) ==
    LET ack == [sequence_number |-> seq, sender_id |-> to_sender,
                success |-> TRUE, error_code |-> 0]
        ack_msg == [type |-> AckTopic, sender_id |-> QosSubscriberTask, priority |-> 0,
                    flags |-> {}, timestamp |-> time, payload_size |-> sizeof_message_ack,
                    sequence_number |-> 0, payload |-> ack]
    IN publish(b, AckTopic, ack_msg, QosSubscriberTask, time).b

SeqKey(msg) == msg.sender_id * U16 + msg.type

\* qos_subscriber::receive: [last_seq_, b, code, msg, acked]
\* acked lists the sequences for which an ACK was published
qos_receive(last, b, time) ==
    LET \* the broker's receive returned res
        Taken(res) ==
            LET b1 == [b EXCEPT !.mailboxes_ = res.mbs,
                                !.received_count_ = IF res.code = "success" THEN @ + 1 ELSE @]
                msg == res.msg
                key == SeqKey(msg)
                seq == msg.sequence_number
                last1 == IF key \in DOMAIN last THEN [last EXCEPT ![key] = seq]
                         ELSE IF Cardinality(DOMAIN last) < TrackLimit
                         THEN MapPut(last, key, seq)
                         ELSE last
            IN
            IF res.code # "success"
            THEN [last_seq_ |-> last, b |-> b1, code |-> res.code, msg |-> NoMsg,
                  acked |-> <<>>]
            ELSE IF key \in DOMAIN last /\ (seq = last[key] \/ seq - last[key] <= 0)
            THEN [last_seq_ |-> last, b |-> send_ack_(b1, seq, msg.sender_id, time),
                  code |-> "not_found", msg |-> NoMsg, acked |-> <<seq>>]
            ELSE IF has_flag(msg.flags, "requires_ack")
            THEN [last_seq_ |-> last1, b |-> send_ack_(b1, seq, msg.sender_id, time),
                  code |-> "success", msg |-> msg, acked |-> <<seq>>]
            ELSE [last_seq_ |-> last1, b |-> b1, code |-> "success", msg |-> msg,
                  acked |-> <<>>]
    IN Taken(receive(b.mailboxes_, QosSubscriberTask))

(***************************************************************************)
(* SpecQos: a QoS publisher (task 1) and a QoS subscriber (task 2) on one  *)
(* broker of the default build.  Task 2 is subscribed to the data topic,   *)
(* task 1 to the ACK topic, where it polls for ACK messages.  Task 3       *)
(* publishes to the data topic on its own, with sequence 1 like the first  *)
(* message of any QoS publisher.                                           *)
(***************************************************************************)
MsgId(msg) == <<msg.sender_id, msg.type, msg.sequence_number>>

QosPublisher == [pending_ |-> pending_, local_seq_ |-> local_seq_]

QosKinds == {<<priority_normal, {}>>, <<priority_normal, {"urgent"}>>}

QosSetupMailboxes ==
    register_task(register_task(<<>>, QosPublisherTask, 0).mbs, QosSubscriberTask, 0).mbs

QosSetupTopics ==
    subscribe(subscribe(<<>>, DataTopic, QosSubscriberTask).ts, AckTopic, QosPublisherTask).ts

InitQos ==
    /\ topic_slots = 1
    /\ mailboxes_ = QosSetupMailboxes
    /\ topics_ = QosSetupTopics
    /\ sequence_ = 0
    /\ sent_count_ = 0
    /\ received_count_ = 0
    /\ dropped_count_ = 0
    /\ now = TickUs
    /\ pubs = 0
    /\ publog = <<>>
    /\ lost = {}
    /\ ret = Ret("init", 0, 0, "success", NoMsg)
    /\ QosIdle
    /\ ExtIdle

QosPublish(kind) ==
    LET Returned(r) ==
            /\ pending_' = r.q.pending_
            /\ local_seq_' = r.q.local_seq_
            /\ mailboxes_' = r.b.mailboxes_
            /\ sequence_' = r.b.sequence_
            /\ sent_count_' = r.b.sent_count_
            /\ dropped_count_' = r.b.dropped_count_
            /\ accepted' = IF r.code = "success" THEN accepted \cup {r.msg.sequence_number}
                           ELSE accepted
            /\ ret' = RetSent("qos_publish", QosPublisherTask, DataTopic, r.code, r.msg,
                              IF r.forwarded THEN <<r.msg.sequence_number>> ELSE <<>>)
    IN
    /\ pubs < MaxQosPub
    /\ Returned(qos_publish(QosPublisher, Broker, DataTopic,
                            NewMessage(kind[1], kind[2], pubs), now))
    /\ pubs' = pubs + 1
    /\ UNCHANGED <<topic_slots, topics_, received_count_, now, publog, lost, last_seq_,
                   delivered, raws, ticks>>
    /\ UNCHANGED extVars

\* pump_retransmit, called when some entry is due (it changes nothing otherwise)
PumpRetransmit ==
    LET Returned(r) ==
            /\ pending_' = r.pending_
            /\ mailboxes_' = r.b.mailboxes_
            /\ sequence_' = r.b.sequence_
            /\ sent_count_' = r.b.sent_count_
            /\ dropped_count_' = r.b.dropped_count_
            /\ ret' = RetSent("pump_retransmit", QosPublisherTask, 0, "success", NoMsg, r.sent)
    IN
    /\ \E k \in DOMAIN pending_ : IsDue(pending_[k], now)
    /\ Returned(pump_retransmit(pending_, Broker, now))
    /\ UNCHANGED <<topic_slots, topics_, received_count_, now, ghostVars, local_seq_,
                   last_seq_, accepted, delivered, raws, ticks>>
    /\ UNCHANGED extVars

\* the publisher's task takes a message from its mailbox, when there is one,
\* and hands it to try_handle_ack_message
PollAck ==
    LET Handled(r, h) ==
            /\ pending_' = IF r.code = "success" THEN h.pending_ ELSE pending_
            /\ ret' = Ret(IF r.code = "success" /\ h.handled THEN "on_ack" ELSE "poll",
                          QosPublisherTask, AckTopic, r.code, r.msg)
        Returned(r) ==
            /\ mailboxes_' = r.mbs
            /\ received_count_' = Counted(r.code)
            /\ Handled(r, try_handle_ack_message(pending_, r.msg))
    IN
    /\ ~is_empty_unlocked(MailboxOf(QosPublisherTask))
    /\ Returned(receive(mailboxes_, QosPublisherTask))
    /\ UNCHANGED <<topic_slots, topics_, sequence_, sent_count_, dropped_count_, now,
                   ghostVars, local_seq_, last_seq_, accepted, delivered, raws, ticks>>
    /\ UNCHANGED extVars

\* qos_subscriber.receive, called when a message waits (it returns the
\* broker's timeout otherwise)
QosReceive ==
    LET Returned(r) ==
            /\ last_seq_' = r.last_seq_
            /\ mailboxes_' = r.b.mailboxes_
            /\ sequence_' = r.b.sequence_
            /\ sent_count_' = r.b.sent_count_
            /\ dropped_count_' = r.b.dropped_count_
            /\ received_count_' = r.b.received_count_
            /\ delivered' = IF r.code = "success"
                            THEN MapPut(delivered, MsgId(r.msg),
                                        IF MsgId(r.msg) \in DOMAIN delivered
                                        THEN delivered[MsgId(r.msg)] + 1 ELSE 1)
                            ELSE delivered
            /\ ret' = RetSent("qos_receive", QosSubscriberTask, DataTopic, r.code, r.msg,
                              r.acked)
    IN
    /\ ~is_empty_unlocked(MailboxOf(QosSubscriberTask))
    /\ Returned(qos_receive(last_seq_, Broker, now))
    /\ UNCHANGED <<topic_slots, topics_, now, ghostVars, pending_, local_seq_,
                   accepted, raws, ticks>>
    /\ UNCHANGED extVars

\* task 3 publishes a message that asks for an ACK and carries sequence 1
OtherPublish ==
    LET Returned(r) ==
            /\ mailboxes_' = r.b.mailboxes_
            /\ sequence_' = r.b.sequence_
            /\ sent_count_' = r.b.sent_count_
            /\ dropped_count_' = r.b.dropped_count_
            /\ ret' = Ret("publish", OtherSender, DataTopic, r.code, r.msg)
    IN
    /\ raws < MaxRawPub
    /\ raws' = raws + 1
    /\ Returned(publish(Broker, DataTopic,
                        [NewMessage(priority_normal, {"requires_ack"}, U16 + raws)
                             EXCEPT !.sequence_number = 1],
                        OtherSender, now))
    /\ UNCHANGED <<topic_slots, topics_, received_count_, now, ghostVars, pending_,
                   local_seq_, last_seq_, accepted, delivered, ticks>>
    /\ UNCHANGED extVars

Tick ==
    /\ ticks < MaxTicks
    /\ ticks' = ticks + 1
    /\ now' = now + TickUs
    /\ ret' = Ret("tick", 0, 0, "success", NoMsg)
    /\ UNCHANGED <<brokerVars, ghostVars, pending_, local_seq_, last_seq_,
                   accepted, delivered, raws>>
    /\ UNCHANGED extVars

NextQos ==
    \/ \E kind \in QosKinds : QosPublish(kind)
    \/ PumpRetransmit
    \/ PollAck
    \/ QosReceive
    \/ OtherPublish
    \/ Tick

SpecQos == InitQos /\ [][NextQos]_vars

\* the sequences of the publisher's messages waiting in the subscriber's mailbox
InFlight ==
    {m.sequence_number : m \in {x \in Held(MailboxOf(QosSubscriberTask)) :
                                    x.sender_id = QosPublisherTask}}

\* the sequences of the publisher's messages that receive returned to the user
Returned ==
    {id[3] : id \in {x \in DOMAIN delivered : x[1] = QosPublisherTask /\ x[2] = DataTopic}}

(***************************************************************************)
(* C6 (as stated): at-least-once delivery, in runs where only the QoS      *)
(* publisher publishes to the data topic.  A message accepted by           *)
(* qos_publisher.publish that the subscriber has not yet returned to its   *)
(* user can still be returned: it has a pending entry at the publisher     *)
(* (so pump_retransmit sends it again) or a copy of it waits in the        *)
(* subscriber's mailbox.  No ACK removes the pending entry of a message    *)
(* that is neither returned nor waiting to be returned.                    *)
(***************************************************************************)
C6_AtLeastOnce ==
    raws = 0 =>
        \A s \in accepted : s \in DOMAIN pending_ \/ s \in Returned \/ s \in InFlight

(***************************************************************************)
(* C7 (as stated): exactly-once at the subscriber.  qos_subscriber.receive *)
(* never returns to the user two messages with the same (sender_id, topic, *)
(* sequence).                                                              *)
(***************************************************************************)
C7_ExactlyOnce ==
    \A id \in DOMAIN delivered : delivered[id] <= 1

\* the sequence an on_ack call was given
AckedSeq(r) == r.msg.payload.sequence_number

(***************************************************************************)
(* C8: when qos_publisher.publish succeeds for sequence s, a pending entry *)
(* for s exists; a pending entry leaves the map only in a call of          *)
(* on_ack with its sequence; on_ack(s) removes exactly the entry for s and *)
(* leaves every other entry unchanged, and changes nothing when s is not   *)
(* pending.                                                                *)
(***************************************************************************)
C8_PendingUntilAck ==
    [][ /\ (ret'.op = "qos_publish" /\ ret'.code = "success")
               => ret'.msg.sequence_number \in DOMAIN pending_'
        /\ \A s \in DOMAIN pending_ :
               s \notin DOMAIN pending_' => (ret'.op = "on_ack" /\ AckedSeq(ret') = s)
        /\ ret'.op = "on_ack"
               => /\ DOMAIN pending_' = DOMAIN pending_ \ {AckedSeq(ret')}
                  /\ \A k \in DOMAIN pending_' : pending_'[k] = pending_[k]
      ]_vars

\* on_ack removed the entry of an accepted message and left another entry
C8_Witness ==
    /\ ret.op = "on_ack"
    /\ AckedSeq(ret) \in accepted
    /\ AckedSeq(ret) \notin DOMAIN pending_
    /\ pending_ # <<>>

(***************************************************************************)
(* C9: the pending map never holds more than PendingLimit entries; a       *)
(* qos_publisher.publish called while it holds PendingLimit entries        *)
(* returns out_of_memory, adds no pending entry and forwards nothing to    *)
(* the broker (no mailbox and no counter of the broker changes).           *)
(***************************************************************************)
C9_PendingBounded ==
    [][ /\ Cardinality(DOMAIN pending_') <= PendingLimit
        /\ (ret'.op = "qos_publish" /\ Cardinality(DOMAIN pending_) >= PendingLimit)
               => /\ ret'.code = "out_of_memory"
                  /\ pending_' = pending_
                  /\ ret'.sent = <<>>
                  /\ mailboxes_' = mailboxes_
                  /\ sequence_' = sequence_
                  /\ sent_count_' = sent_count_
                  /\ dropped_count_' = dropped_count_
      ]_vars

\* a publish was refused because the pending map was full
C9_Witness ==
    /\ ret.op = "qos_publish" /\ ret.code = "out_of_memory" /\ ret.sent = <<>>
    /\ Cardinality(DOMAIN pending_) = PendingLimit

\* the pending entries whose last send is at least the ACK timeout old
DueAt(pend, time) ==
    {k \in DOMAIN pend : time - pend[k].last_send >= default_ack_timeout_us}

(***************************************************************************)
(* C10: pump_retransmit re-publishes exactly the pending entries whose     *)
(* last send is at least ACK_TIMEOUT_US old, in the order of their         *)
(* sequences (a copy of the last one then waits in the subscriber's        *)
(* mailbox), increments their attempts by one and sets their last-send     *)
(* time to now; it leaves younger entries untouched and removes none.  An  *)
(* entry sent once therefore has attempts = 2 after the first pump past    *)
(* its timeout, and an ACK for it that arrives later removes the entry.    *)
(***************************************************************************)
C10_PumpRetransmit ==
    [][ /\ ret'.op = "pump_retransmit"
               => /\ SeqElems(ret'.sent) = DueAt(pending_, now)
                  /\ Len(ret'.sent) = Cardinality(DueAt(pending_, now))
                  /\ DOMAIN pending_' = DOMAIN pending_
                  /\ \A k \in DueAt(pending_, now) :
                         /\ pending_'[k].attempts = pending_[k].attempts + 1
                         /\ pending_[k].attempts = 1 => pending_'[k].attempts = 2
                         /\ pending_'[k].last_send = now
                  /\ \A k \in DOMAIN pending_ \ DueAt(pending_, now) :
                         pending_'[k] = pending_[k]
                  /\ ret'.sent # <<>>
                         => \E m \in Held(MailboxIn(mailboxes_', QosSubscriberTask)) :
                               /\ m.sender_id = QosPublisherTask
                               /\ m.sequence_number = ret'.sent[Len(ret'.sent)]
        /\ ret'.op = "on_ack" => AckedSeq(ret') \notin DOMAIN pending_'
      ]_vars

\* the first pump past the timeout re-sent one entry and left a younger one
C10_Witness ==
    /\ ret.op = "pump_retransmit" /\ Len(ret.sent) = 1
    /\ \E k \in DOMAIN pending_ :
          /\ ret.sent = <<k>>
          /\ pending_[k].attempts = 2 /\ pending_[k].last_send = now
    /\ \E j \in DOMAIN pending_ : pending_[j].attempts = 1 /\ pending_[j].last_send < now

(***************************************************************************)
(* SpecSeq: the QoS subscriber (task 2) of SpecQos and a task (task 3)     *)
(* that publishes data messages straight through the broker with sequence  *)
(* numbers and flags of its own choice, the way a publisher far into its   *)
(* 16-bit sequence space does.  Task 1 polls the ACK topic.                *)
(***************************************************************************)
SeqValues == {1, 2, 32770, U16 - 1}

SeqFlags == {{}, {"requires_ack"}}

SeqPublish(seq, flags) ==
    LET Done(r) ==
            /\ mailboxes_' = r.b.mailboxes_
            /\ sequence_' = r.b.sequence_
            /\ sent_count_' = r.b.sent_count_
            /\ dropped_count_' = r.b.dropped_count_
            /\ ret' = Ret("publish", OtherSender, DataTopic, r.code, r.msg)
    IN
    /\ pubs < MaxSeqPub
    /\ pubs' = pubs + 1
    /\ Done(publish(Broker, DataTopic,
                        [NewMessage(priority_normal, flags, pubs)
                             EXCEPT !.sequence_number = seq],
                        OtherSender, now))
    /\ UNCHANGED <<topic_slots, topics_, received_count_, now, publog, lost, qosVars, extVars>>

NextSeq ==
    \/ \E seq \in SeqValues, flags \in SeqFlags : SeqPublish(seq, flags)
    \/ QosReceive
    \/ PollAck

SpecSeq == InitQos /\ [][NextSeq]_vars

\* the message the next receive of the QoS subscriber takes from the broker
TakenNext == MailboxReceive(MailboxOf(QosSubscriberTask)).msg

\* C11: for every message the QoS subscriber takes from the broker, accepted
\* or duplicate, it publishes an ACK with that message's sequence if and
\* only if the message has the requires_ack flag.
C11_AckIffRequested ==
    [][ret'.op = "qos_receive"
        => IF has_flag(TakenNext.flags, "requires_ack")
           THEN ret'.sent = <<TakenNext.sequence_number>>
           ELSE ret'.sent = <<>>]_vars

\* the difference a - b of two sequence numbers as a signed 16-bit value
SignedDiff16(a, b) ==
    LET d == (a - b) % U16 IN IF d >= U16 \div 2 THEN d - U16 ELSE d

\* C12: a message from a tracked sender is accepted and returned when its
\* sequence is ahead of the last accepted one by the signed 16-bit
\* difference (1..32767, wrap from 65535 to a small value included) and is
\* treated as a duplicate when it is equal or behind.
C12_SignedSequenceDifference ==
    [][(ret'.op = "qos_receive" /\ SeqKey(TakenNext) \in DOMAIN last_seq_)
        => IF SignedDiff16(TakenNext.sequence_number, last_seq_[SeqKey(TakenNext)]) > 0
           THEN ret'.code = "success" /\ ret'.msg = TakenNext
           ELSE ret'.code = "not_found"]_vars

(***************************************************************************)
(* SpecParser: one packet_parser of the generated configuration (sync      *)
(* 0x55 0xAA, 16-bit length) fed an arbitrary byte stream, with            *)
(* get_packet and reset called at any moment.  The bytes are drawn from a  *)
(* small alphabet and from the checksum bytes that complete a frame.       *)
(***************************************************************************)
LengthBytes == IF PACKET_LENGTH_16BIT THEN 2 ELSE 1

HeaderLen == Len(PACKET_SYNC) + 1 + LengthBytes

\* the length field of a payload of len bytes, big-endian
LengthField(len) == IF PACKET_LENGTH_16BIT THEN <<len \div 256, len % 256>> ELSE <<len>>

\* the frame SYNC | opcode | length | payload | Fletcher-16, big-endian
Frame(opcode, payload) ==
    LET Checked(body, ck) == PACKET_SYNC \o body \o <<ck \div 256, ck % 256>>
        Body(body) == Checked(body, fletcher16(body))
    IN Body(<<opcode>> \o LengthField(Len(payload)) \o payload)

\* the length the bytes s announce, s holding a whole header
WireLength(s) ==
    IF PACKET_LENGTH_16BIT THEN s[HeaderLen - 1] * 256 + s[HeaderLen] ELSE s[HeaderLen]

WireOpcode(s) == s[Len(PACKET_SYNC) + 1]

WirePayload(s) == SubSeq(s, HeaderLen + 1, Min(Len(s), HeaderLen + WireLength(s)))

\* s is the beginning of a frame with a payload of at most MaxPayload bytes
IsFramePrefix(s) ==
    /\ \A i \in 1..Min(Len(s), Len(PACKET_SYNC)) : s[i] = PACKET_SYNC[i]
    /\ Len(s) >= HeaderLen
        => /\ WireLength(s) <= MaxPayload
           /\ Len(s) <= HeaderLen + WireLength(s) + 2
           /\ Len(s) > HeaderLen + WireLength(s)
                => s = SubSeq(Frame(WireOpcode(s), WirePayload(s)), 1, Len(s))

IsFrame(s) ==
    /\ Len(s) >= HeaderLen + 2
    /\ IsFramePrefix(s)
    /\ Len(s) = HeaderLen + WireLength(s) + 2

\* the checksum byte that continues a byte run towards a frame
NextChecksumByte(s) ==
    IF Len(s) >= HeaderLen /\ Len(s) >= HeaderLen + WireLength(s) /\ ~IsFrame(s)
    THEN {Frame(WireOpcode(s), WirePayload(s))[Len(s) + 1]}
    ELSE {}

ByteAlphabet == {0, MaxPayload} \cup SeqElems(PACKET_SYNC)

ByteChoices == ByteAlphabet \cup UNION {NextChecksumByte(c.bytes) : c \in candidates}

\* the byte runs that may still become a frame once b was fed and decode
\* returned done
Extended(b, done) ==
    LET started == IF parser_.state_ = "SYNC" THEN {[bytes |-> <<>>, trues |-> 0]} ELSE {}
        longer == {[bytes |-> Append(c.bytes, b), trues |-> c.trues + (IF done THEN 1 ELSE 0)] :
                       c \in candidates \cup started}
    IN {c \in longer : IsFramePrefix(c.bytes)}

Decode(b) ==
    LET Done(r) ==
            /\ parser_' = r.p
            /\ pret' = [op |-> "decode", data |-> b, done |-> r.done]
            /\ candidates' = Extended(b, r.done)
    IN
    /\ Done(decode(parser_, b))
    /\ UNCHANGED <<messagingVars, sysVars, codecVars, taskVars, waitVars>>

GetPacket ==
    LET Done(r) ==
            /\ parser_' = r.p
            /\ pret' = [op |-> "get_packet", data |-> 0, done |-> r.ok]
    IN
    /\ Done(get_packet(parser_))
    /\ UNCHANGED <<candidates, messagingVars, sysVars, codecVars, taskVars, waitVars>>

Reset ==
    /\ parser_' = parser_reset(parser_, "none")
    /\ pret' = [op |-> "reset", data |-> 0, done |-> FALSE]
    /\ candidates' = {}
    /\ UNCHANGED <<messagingVars, sysVars, codecVars, taskVars, waitVars>>

InitParser ==
    /\ MessagingIdle
    /\ ExtIdle

NextParser ==
    \/ \E b \in ByteChoices : Decode(b)
    \/ GetPacket
    \/ Reset

SpecParser == InitParser /\ [][NextParser]_vars

\* the length on_length has assembled once the byte b completes the field
CompletedLength(b) ==
    IF PACKET_LENGTH_16BIT THEN parser_.pkt_.length + b ELSE b

\* C13: the parser state stays in the declared set; a byte that completes a
\* checksum mismatch or a length above MaxPayload makes decode return
\* false with no packet available, last_error checksum_mismatch or
\* length_overflow respectively, and the state back at SYNC.
C13_ErrorsResetToSync ==
    [][pret'.op = "decode"
        => /\ parser_'.state_ \in PacketRxStates
           /\ (/\ parser_.state_ = "CHECKSUM"
               /\ parser_.chksum_bytes_read_ = 1
               /\ parser_.pkt_.checksum_rx + pret'.data # acc_value(parser_.acc_))
                => /\ ~pret'.done
                   /\ ~parser_'.packet_ready_
                   /\ parser_'.error_ = "checksum_mismatch"
                   /\ parser_'.state_ = "SYNC"
           /\ (/\ parser_.state_ = "DATA_LENGTH"
               /\ (PACKET_LENGTH_16BIT => parser_.len_bytes_read_ = 1)
               /\ CompletedLength(pret'.data) > MaxPayload)
                => /\ ~pret'.done
                   /\ ~parser_'.packet_ready_
                   /\ parser_'.error_ = "length_overflow"
                   /\ parser_'.state_ = "SYNC"]_vars

\* the last byte of a frame with a full payload and a wrong checksum arrived
C13_Witness ==
    /\ pret.op = "decode"
    /\ parser_.error_ = "checksum_mismatch"
    /\ parser_.state_ = "SYNC"
    /\ parser_.chksum_bytes_read_ = 1
    /\ parser_.pkt_.data[MaxPayload] # 0

\* C14: a frame SYNC | opcode | length | payload | Fletcher-16 fed to a
\* parser that was in SYNC state makes decode return true exactly once, on
\* its last byte, and get_packet then yields that opcode, length and
\* payload with last_error none.
C14_FrameYieldsPacket ==
    pret.op = "decode"
        => \A c \in candidates :
               IF IsFrame(c.bytes)
               THEN /\ c.trues = 1
                    /\ pret.done
                    /\ get_packet(parser_).ok
                    /\ get_packet(parser_).out.opcode = WireOpcode(c.bytes)
                    /\ get_packet(parser_).out.length = WireLength(c.bytes)
                    /\ SubSeq(get_packet(parser_).out.data, 1, WireLength(c.bytes))
                           = WirePayload(c.bytes)
                    /\ parser_.error_ = "none"
               ELSE c.trues = 0

\* the last byte of a frame with a full payload and a non-zero opcode arrived
C14_Witness ==
    /\ pret.op = "decode"
    /\ \E c \in candidates :
           /\ IsFrame(c.bytes)
           /\ WireLength(c.bytes) = MaxPayload
           /\ WireOpcode(c.bytes) # 0
    /\ Cardinality(candidates) = 1

(***************************************************************************)
(* SpecCodec: a layout is registered with the field encoder and the field  *)
(* decoder for one opcode, a struct is encoded, its bytes go through a     *)
(* packet_parser of the generated configuration one by one, and the        *)
(* packet the parser yields is decoded into a zeroed struct.               *)
(***************************************************************************)
RECURSIVE ScalarLayouts(_)
ScalarLayouts(n) ==
    IF n = 0 THEN {<<>>}
    ELSE ScalarLayouts(n - 1)
         \cup {Append(l, t) : l \in {x \in ScalarLayouts(n - 1) : Len(x) = n - 1},
                              t \in {"U8", "U16", "U32"}}

\* scalar fields with or without a trailing u8_array
Layouts ==
    (ScalarLayouts(MaxScalars) \cup {Append(l, "U8_ARRAY") : l \in ScalarLayouts(MaxScalars)})
        \ {<<>>}

FieldValues(type) ==
    IF type = "U8" THEN {7, 255}
    ELSE IF type = "U16" THEN {258, 65535}
    ELSE IF type = "U32" THEN {16909060, 2147483647}
    ELSE {<<>>, <<9>>, <<9, 10>>}

\* every struct of the first n fields of a layout over the chosen field values
RECURSIVE Structs(_, _)
Structs(layout, n) ==
    IF n = 0 THEN {<<>>}
    ELSE {Append(v, x) : v \in Structs(layout, n - 1), x \in FieldValues(layout[n])}

\* a struct of the layout before decode_fields wrote into it
ZeroStruct(layout) == [i \in 1..Len(layout) |-> IF layout[i] = "U8_ARRAY" THEN <<>> ELSE 0]

CodecOpcodes == {1, OPCODE_SPACE - 1}

\* the application registers a layout for an opcode with the encoder and
\* with the decoder, once
RegisterLayout(opcode, fields) ==
    LET Done(e, d) ==
            /\ enc_layouts_' = e.layouts
            /\ dec_layouts_' = d.layouts
            /\ cret' = [op |-> "set_field_layout", ok |-> e.ok /\ d.ok]
    IN
    /\ enc_layouts_ = NoLayouts
    /\ Done(set_field_layout(enc_layouts_, opcode, fields),
            set_field_layout(dec_layouts_, opcode, fields))
    /\ UNCHANGED <<source_struct, wire, target_struct, protoVars, messagingVars, sysVars, taskVars, waitVars>>

EncodeCommand(opcode, source) ==
    LET Done(r) ==
            /\ wire' = r.out
            /\ cret' = [op |-> "encode_command", ok |-> r.ok]
    IN
    /\ source_struct.fields = <<>>
    /\ source_struct' = [opcode |-> opcode, fields |-> source]
    /\ Done(encode_command(enc_layouts_, opcode, source))
    /\ UNCHANGED <<enc_layouts_, dec_layouts_, target_struct, protoVars, messagingVars, sysVars, taskVars, waitVars>>

\* the next encoded byte reaches the parser
FeedByte ==
    LET Done(r) ==
            /\ parser_' = r.p
            /\ pret' = [op |-> "decode", data |-> Head(wire), done |-> r.done]
    IN
    /\ wire # <<>>
    /\ Done(decode(parser_, Head(wire)))
    /\ wire' = Tail(wire)
    /\ cret' = [op |-> "feed", ok |-> TRUE]
    /\ UNCHANGED <<enc_layouts_, dec_layouts_, source_struct, target_struct, candidates,
                   messagingVars, sysVars, taskVars, waitVars>>

\* get_packet and decode_fields into a zeroed struct of the layout
DecodeFields ==
    LET Decoded(r) ==
            /\ target_struct' = r.target
            /\ cret' = [op |-> "decode_fields", ok |-> r.ok]
        Got(g) ==
            /\ parser_' = g.p
            /\ Decoded(decode_fields(dec_layouts_, g.out,
                                     ZeroStruct(dec_layouts_[g.out.opcode + 1])))
    IN
    /\ parser_.packet_ready_
    /\ Got(get_packet(parser_))
    /\ UNCHANGED <<enc_layouts_, dec_layouts_, source_struct, wire, candidates, pret,
                   messagingVars, sysVars, taskVars, waitVars>>

InitCodec ==
    /\ MessagingIdle
    /\ parser_ = NewParser(PACKET_MAX_PAYLOAD)
    /\ candidates = {}
    /\ pret = [op |-> "init", data |-> 0, done |-> FALSE]
    /\ CodecIdle
    /\ TaskIdle
    /\ WaitIdle
    /\ SysIdle

NextCodec ==
    \/ \E opcode \in CodecOpcodes, fields \in Layouts : RegisterLayout(opcode, fields)
    \/ \E opcode \in CodecOpcodes :
           \E source \in Structs(enc_layouts_[opcode + 1], Len(enc_layouts_[opcode + 1])) :
               EncodeCommand(opcode, source)
    \/ FeedByte
    \/ DecodeFields

SpecCodec == InitCodec /\ [][NextCodec]_vars

\* the layout of the encoded struct is registered with both sides
SameLayout ==
    /\ source_struct.fields # <<>>
    /\ enc_layouts_[source_struct.opcode + 1] = dec_layouts_[source_struct.opcode + 1]

\* C15: for every registered layout of u8, u16, u32 fields and a trailing
\* u8_array of any length, zero included, and every struct v, the bytes of
\* encode_command for v go through the packet parser and decode_fields
\* then succeeds and reproduces v field for field.
C15_RoundTrip ==
    /\ (SameLayout /\ wire = <<>> /\ cret.op = "feed") => parser_.packet_ready_
    /\ (SameLayout /\ cret.op = "decode_fields")
           => cret.ok /\ target_struct = source_struct.fields

(***************************************************************************)
(* Specification SpecTasks: the cooperative scheduler                      *)
(*   tasks of every priority, one-shot and periodic, are created, run,     *)
(*   suspended, started and resumed while the millisecond clock advances   *)
(***************************************************************************)
TaskPeriods == {0, 1}
ExecTimes == {0, 1}
CreatedIds == 0..MaxCreated

TaskRet(op, id, result, executed) ==
    [op |-> op, id |-> id, result |-> result, executed |-> executed]

Initialize ==
    LET Done(r) ==
            /\ taskmaster_' = r.tm
            /\ tasks_' = r.tasks
            /\ tret' = TaskRet("initialize", 0, r.result, 0)
    IN
    /\ Done(initialize(taskmaster_, tasks_, time_ms))
    /\ UNCHANGED <<time_ms, messagingVars, sysVars, protoVars, codecVars, waitVars>>

CreateTask(priority_level, period_ms) ==
    LET Done(r) ==
            /\ taskmaster_' = r.tm
            /\ tasks_' = r.tasks
            /\ tret' = TaskRet("create_task", r.id, r.result, 0)
    IN
    /\ Len(tasks_) < MaxCreated
    /\ Done(create_task(taskmaster_, tasks_,
                        [function |-> TRUE, priority_level |-> priority_level,
                         period_ms |-> period_ms], time_ms))
    /\ UNCHANGED <<time_ms, messagingVars, sysVars, protoVars, codecVars, waitVars>>

StartTask(task_id) ==
    LET Done(r) ==
            /\ tasks_' = r.tasks
            /\ tret' = TaskRet("start_task", task_id, r.result, 0)
    IN
    /\ Done(start_task(tasks_, task_id))
    /\ UNCHANGED <<taskmaster_, time_ms, messagingVars, sysVars, protoVars, codecVars, waitVars>>

SuspendTask(task_id) ==
    LET Done(r) ==
            /\ tasks_' = r.tasks
            /\ tret' = TaskRet("suspend_task", task_id, r.result, 0)
    IN
    /\ Done(suspend_task(tasks_, task_id))
    /\ UNCHANGED <<taskmaster_, time_ms, messagingVars, sysVars, protoVars, codecVars, waitVars>>

ResumeTask(task_id) ==
    LET Done(r) ==
            /\ tasks_' = r.tasks
            /\ tret' = TaskRet("resume_task", task_id, r.result, 0)
    IN
    /\ Done(resume_task(tasks_, task_id))
    /\ UNCHANGED <<taskmaster_, time_ms, messagingVars, sysVars, protoVars, codecVars, waitVars>>

\* one call of run(); the task function, if one is invoked, takes exec_ms
Run(exec_ms) ==
    LET Done(r) ==
            /\ r.time <= MaxTimeMs
            /\ taskmaster_' = r.tm
            /\ tasks_' = r.tasks
            /\ time_ms' = r.time
            /\ tret' = TaskRet("run", 0, "success", r.executed)
    IN
    /\ taskmaster_.total_context_switches_ < MaxRuns
    /\ Done(run(taskmaster_, tasks_, time_ms, exec_ms))
    /\ UNCHANGED <<messagingVars, sysVars, protoVars, codecVars, waitVars>>

\* a millisecond passes outside the scheduler
TimePasses ==
    /\ time_ms < MaxTimeMs
    /\ time_ms' = time_ms + 1
    /\ tret' = TaskRet("time", 0, "success", 0)
    /\ UNCHANGED <<tasks_, taskmaster_, messagingVars, sysVars, protoVars, codecVars, waitVars>>

InitTasks ==
    /\ MessagingIdle
    /\ ExtIdle

NextTasks ==
    \/ Initialize
    \/ \E priority_level \in Priorities, period_ms \in TaskPeriods :
           CreateTask(priority_level, period_ms)
    \/ \E task_id \in CreatedIds : StartTask(task_id)
    \/ \E task_id \in CreatedIds : SuspendTask(task_id)
    \/ \E task_id \in CreatedIds : ResumeTask(task_id)
    \/ \E exec_ms \in ExecTimes : Run(exec_ms)
    \/ TimePasses

SpecTasks == InitTasks /\ [][NextTasks]_vars

\* the tasks run() may pick at current_time: ready and, if periodic, due
Eligible(tasks, current_time) ==
    {i \in 1..Len(tasks) :
        /\ tasks[i].state = "ready"
        /\ tasks[i].period_ms > 0 => tasks[i].next_run_time <= current_time}

\* C16: every call of run() on an initialized scheduler executes one task when some
\* task is eligible, that task is eligible and no eligible task has a higher
\* priority, whatever the priorities from idle to critical; it idles only when no
\* task is eligible.
C16_RunsHighestEligible ==
    [][(tret'.op = "run" /\ taskmaster_.initialized_) =>
          IF Eligible(tasks_, time_ms) = {}
          THEN tret'.executed = 0
          ELSE /\ tret'.executed \in Eligible(tasks_, time_ms)
               /\ tasks_'[tret'.executed].run_count = tasks_[tret'.executed].run_count + 1
               /\ \A j \in Eligible(tasks_, time_ms) :
                      tasks_[j].priority_level <= tasks_[tret'.executed].priority_level]_vars

\* C17: the function of a one-shot task (period 0) is invoked at most once, whatever
\* run, suspend_task, start_task and resume_task calls are made: completed is terminal.
C17_OneShotRunsOnce ==
    \A i \in 1..Len(tasks_) : tasks_[i].period_ms = 0 => tasks_[i].run_count <= 1

(***************************************************************************)
(* Specification SpecWait: blocking receive against concurrent senders     *)
(*   The owner task 1 is registered with a handle and subscribed to one    *)
(*   topic; it calls receive(1, timeout_ms) again and again.  Tasks 2 and  *)
(*   3 publish on the topic.  A sender can be preempted between leaving    *)
(*   the critical section of send and os::notify_task, the owner between   *)
(*   leaving the critical section of receive and os::clear_notification,   *)
(*   and between any two calls it makes.  The notification behaves as the  *)
(*   RTOS one: notify_task sets it, wait_notification returns at once if   *)
(*   it is set and takes it, clear_notification resets it.                 *)
(***************************************************************************)
Owner == 1
OwnerHandle == 1
WaitTopic == 7
WaitTimeouts == {0, MaxWaitMs}

\* the broker after register_task(Owner, handle) and subscribe(WaitTopic, Owner)
InitWait ==
    /\ topic_slots = 1
    /\ mailboxes_ = register_task(<<>>, Owner, OwnerHandle).mbs
    /\ topics_ = subscribe(<<>>, WaitTopic, Owner).ts
    /\ sequence_ = 0
    /\ sent_count_ = 0
    /\ received_count_ = 0
    /\ dropped_count_ = 0
    /\ now = 0
    /\ pubs = 0
    /\ publog = <<>>
    /\ lost = {}
    /\ ret = Ret("subscribe", Owner, WaitTopic, "success", NoMsg)
    /\ QosIdle
    /\ ExtIdle

\* publish by sender s up to the end of the critical section of send; the broker's
\* counters, which receive never reads, are updated in the same step
SendEnter(s, kind) ==
    LET msg == NewMessage(kind[1], kind[2], pubs)
        Done(r, notify) ==
            /\ mailboxes_' = r.b.mailboxes_
            /\ sequence_' = r.b.sequence_
            /\ sent_count_' = r.b.sent_count_
            /\ dropped_count_' = r.b.dropped_count_
            /\ lost' = lost \cup LostBy(r, msg)
            /\ ret' = Ret("publish", s, WaitTopic, r.code, r.msg)
            /\ dropped_tags' = dropped_tags \cup {d[2].payload : d \in r.drops}
            /\ sender_pc' = [sender_pc EXCEPT ![s] = IF notify THEN "notify" ELSE "idle"]
        Stamped(r) == Done(r, MailboxSend(MailboxOf(Owner), r.msg).notify)
    IN
    /\ sender_pc[s] = "idle"
    /\ pubs < MaxWaitPub
    /\ Stamped(publish(Broker, WaitTopic, msg, s, now))
    /\ pubs' = pubs + 1
    /\ UNCHANGED <<topic_slots, topics_, received_count_, now, publog, qosVars,
                   sysVars, protoVars, codecVars, taskVars,
                   notification, receiver_, wret, received_tags>>

\* os::notify_task(handle, 0x01) after the critical section
SendNotify(s) ==
    /\ sender_pc[s] = "notify"
    /\ notification' = TRUE
    /\ sender_pc' = [sender_pc EXCEPT ![s] = "idle"]
    /\ UNCHANGED <<messagingVars, sysVars, protoVars, codecVars, taskVars,
                   receiver_, wret, received_tags, dropped_tags>>

\* receive returns code and msg to the owner, whose locals are rcv
ReceiveReturns(rcv, code, msg) ==
    /\ wret' = [code |-> code, msg |-> msg, timeout_ms |-> rcv.timeout_ms,
                waited |-> rcv.waited, woken |-> rcv.woken]
    /\ received_count_' = Counted(code)
    /\ received_tags' = IF code = "success" THEN received_tags \cup {msg.payload}
                        ELSE received_tags
    /\ receiver_' = ReceiverIdle

\* mailbox->receive() up to the end of its critical section, called at the start of
\* receive (first) or after the wake-up: on success the owner goes on to
\* clear_notification or returns, on failure it waits (first) or returns timeout
MailboxAttempt(first, rcv) ==
    LET m == find_mailbox(mailboxes_, Owner)
        Attempted(r) ==
            IF r.code = "success"
            THEN /\ mailboxes_' = [mailboxes_ EXCEPT ![m] = r.mb]
                 /\ IF r.clear
                    THEN /\ receiver_' = [rcv EXCEPT !.pc = "clear", !.msg = r.msg]
                         /\ UNCHANGED <<wret, received_count_, received_tags, dropped_tags>>
                    ELSE ReceiveReturns(rcv, "success", r.msg)
            ELSE /\ UNCHANGED mailboxes_
                 /\ IF first
                    THEN /\ receiver_' = [rcv EXCEPT !.pc = "wait"]
                         /\ UNCHANGED <<wret, received_count_, received_tags, dropped_tags>>
                    ELSE ReceiveReturns(rcv, "timeout", NoMsg)
    IN Attempted(MailboxReceive(mailboxes_[m]))

\* receive(Owner, timeout_ms) is called: the immediate attempt
ReceiveCall(timeout_ms) ==
    /\ receiver_.pc = "idle"
    /\ MailboxAttempt(TRUE, [ReceiverIdle EXCEPT !.timeout_ms = timeout_ms])
    /\ UNCHANGED <<topic_slots, topics_, sequence_, sent_count_, dropped_count_, now,
                   ghostVars, ret, qosVars, sysVars, protoVars, codecVars, taskVars,
                   notification, sender_pc, dropped_tags>>

\* os::clear_notification() after a dequeue that left the mailbox empty, then return
ClearNotification ==
    /\ receiver_.pc = "clear"
    /\ notification' = FALSE
    /\ ReceiveReturns(receiver_, "success", receiver_.msg)
    /\ UNCHANGED <<topic_slots, mailboxes_, topics_, sequence_, sent_count_, dropped_count_,
                   now, ghostVars, ret, qosVars, sysVars, protoVars, codecVars, taskVars, sender_pc, dropped_tags>>

\* os::wait_notification returns true with bit 0x01 and takes the notification
WaitWake ==
    /\ receiver_.pc = "wait"
    /\ notification
    /\ notification' = FALSE
    /\ receiver_' = [receiver_ EXCEPT !.pc = "retry", !.woken = TRUE]
    /\ UNCHANGED <<messagingVars, sysVars, protoVars, codecVars, taskVars,
                   sender_pc, wret, received_tags, dropped_tags>>

\* a millisecond of the wait passes
WaitTick ==
    /\ receiver_.pc = "wait"
    /\ ~notification
    /\ receiver_.waited < receiver_.timeout_ms
    /\ receiver_' = [receiver_ EXCEPT !.waited = @ + 1]
    /\ UNCHANGED <<messagingVars, sysVars, protoVars, codecVars, taskVars,
                   notification, sender_pc, wret, received_tags, dropped_tags>>

\* os::wait_notification returns false after timeout_ms: receive returns timeout
WaitExpire ==
    /\ receiver_.pc = "wait"
    /\ ~notification
    /\ receiver_.waited = receiver_.timeout_ms
    /\ ReceiveReturns(receiver_, "timeout", NoMsg)
    /\ UNCHANGED <<topic_slots, mailboxes_, topics_, sequence_, sent_count_, dropped_count_,
                   now, ghostVars, ret, qosVars, sysVars, protoVars, codecVars, taskVars,
                   notification, sender_pc, dropped_tags>>

\* the second mailbox->receive(), after the wake-up
Retry ==
    /\ receiver_.pc = "retry"
    /\ MailboxAttempt(FALSE, receiver_)
    /\ UNCHANGED <<topic_slots, topics_, sequence_, sent_count_, dropped_count_, now,
                   ghostVars, ret, qosVars, sysVars, protoVars, codecVars, taskVars,
                   notification, sender_pc, dropped_tags>>

\* the steps of the owner that do not depend on time passing
OwnerStep ==
    \/ \E timeout_ms \in WaitTimeouts : ReceiveCall(timeout_ms)
    \/ ClearNotification
    \/ WaitWake
    \/ Retry

NextWait ==
    \/ \E s \in Senders, kind \in FanoutKinds : SendEnter(s, kind)
    \/ \E s \in Senders : SendNotify(s)
    \/ OwnerStep
    \/ WaitTick
    \/ WaitExpire

SpecWait == InitWait /\ [][NextWait]_vars

\* C18: a blocking receive returns timeout only after it waited timeout_ms for the
\* notification, whatever the concurrent senders do.
C18_TimeoutOnlyAfterWait ==
    wret.code = "timeout" => wret.waited >= wret.timeout_ms

(***************************************************************************)
(* Specification SpecWaitFair: SpecWait where the scheduler lets the owner *)
(* and a sender that is about to notify run again.  Nothing is assumed     *)
(* about the passing of time: a wait need not expire.                      *)
(***************************************************************************)
SpecWaitFair ==
    /\ InitWait
    /\ [][NextWait]_vars
    /\ WF_vars(OwnerStep)
    /\ \A s \in Senders : WF_vars(SendNotify(s))

\* payloads waiting in the owner's mailbox
QueuedTags == {m.payload : m \in Held(MailboxOf(Owner))}

\* the owner waits for the notification although a message is queued, no
\* notification is pending and no sender is about to notify
LeftWaiting ==
    /\ receiver_.pc = "wait"
    /\ QueuedTags # {}
    /\ ~notification
    /\ \A s \in Senders : sender_pc[s] # "notify"

\* C19: no lost wake-up.  The owner is never left waiting while a message is
\* queued and no notification is pending or about to be sent, and every message
\* that was enqueued and not dropped is eventually returned by a receive, without
\* relying on a wait to expire.
C19_NoLostWakeup ==
    /\ []~LeftWaiting
    /\ \A tag \in 0..(MaxWaitPub - 1) :
           (tag \in QueuedTags) ~> (tag \in received_tags \cup dropped_tags)

\* the owner was woken by a notification, received a message, and another one,
\* sent without a notification, is still queued
C19_Witness ==
    /\ wret.code = "success"
    /\ wret.woken
    /\ QueuedTags # {}
    /\ ~notification

(***************************************************************************)
(* C20 is stated over SpecPublish, where subscribe and set_topic_capacity  *)
(* calls interleave.                                                       *)
(***************************************************************************)
\* task t is in the subscriber list of the topic
IsSubscriber(ts, topic, t) ==
    /\ find_topic(ts, topic) # 0
    /\ t \in SeqElems(ts[find_topic(ts, topic)].subscriber_ids)

\* C20: subscribe is idempotent in every broker state: subscribing a task that is
\* already subscribed returns success and leaves the topic registry unchanged, and
\* no subscriber list holds the same task twice.
C20_SubscribeIdempotent ==
    /\ [][(ret'.op = "subscribe" /\ IsSubscriber(topics_, ret'.topic, ret'.task))
              => (ret'.code = "success" /\ topics_' = topics_)]_vars
    /\ [](\A t \in 1..Len(topics_) :
              \A i, j \in 1..Len(topics_[t].subscriber_ids) :
                  topics_[t].subscriber_ids[i] = topics_[t].subscriber_ids[j] => i = j)

(***************************************************************************)
(* Specification SpecRegistry: the topic registry                          *)
(*   subscribe and set_topic_capacity are called in any order with more    *)
(*   topic ids than the registry has room for                              *)
(***************************************************************************)
RegistryTopics == 1..MaxTopicId
RegistryTask == 1

InitRegistry ==
    /\ MessagingIdle
    /\ ExtIdle

NextRegistry ==
    \/ \E topic \in RegistryTopics : Subscribe(topic, RegistryTask)
    \/ \E topic \in RegistryTopics : SetTopicCapacity(topic, max_subscribers_per_topic)

SpecRegistry == InitRegistry /\ [][NextRegistry]_vars

\* C21: after any sequence of subscribe and set_topic_capacity calls the registry
\* is strictly sorted by topic id, holds at most max_topics entries, find_topic
\* returns the entry of every topic in it, and no topic ever leaves it.
C21_RegistrySorted ==
    /\ [](/\ \A i, j \in 1..Len(topics_) :
                 i < j => topics_[i].topic_id < topics_[j].topic_id
          /\ Len(topics_) <= max_topics
          /\ \A i \in 1..Len(topics_) : find_topic(topics_, topics_[i].topic_id) = i)
    /\ [][\A i \in 1..Len(topics_) : find_topic(topics_', topics_[i].topic_id) # 0]_vars

\* the registry is full, it was filled in an order other than ascending, and a
\* subscribe to one more topic was refused
C21_Witness ==
    /\ Len(topics_) = max_topics
    /\ ret.op = "subscribe"
    /\ ret.code = "out_of_memory"
    /\ find_topic(topics_, ret.topic) = 0
    /\ ret.topic < topics_[1].topic_id

(***************************************************************************)
(* C22 is stated over SpecBroker: publishes without a sequence number of   *)
(* their own, received through try_receive.                                *)
(***************************************************************************)
\* C22: every message a subscriber obtains from receive after a publish has a
\* sequence number other than 0.
C22_SequenceNonZero ==
    (ret.op = "try_receive" /\ ret.code = "success") => ret.msg.sequence_number # 0

(***************************************************************************)
(* Specification SpecOrder: publishes and receives on a broker whose sequence *)
(* counter is either fresh or two steps before its wrap-around.  The       *)
(* second start is the broker after 65534 publishes on a topic nobody is   *)
(* subscribed to: publish counts them in sequence_ and in nothing else.    *)
(***************************************************************************)
InitOrder ==
    /\ topic_slots = 1
    /\ mailboxes_ = <<>>
    /\ topics_ = <<>>
    /\ sequence_ \in {0, U16 - 2}
    /\ sent_count_ = 0
    /\ received_count_ = 0
    /\ dropped_count_ = 0
    /\ now = 0
    /\ pubs = 0
    /\ publog = <<>>
    /\ lost = {}
    /\ ret = Ret("init", 0, 0, "success", NoMsg)
    /\ QosIdle
    /\ ExtIdle

PublishOrder(topic, kind, from) ==
    /\ pubs < MaxOrderPub
    /\ PublishCall(topic, kind, from)
    /\ UNCHANGED publog

NextOrder ==
    \/ \E t \in TaskIds : pubs = 0 /\ RegisterTask(t)
    \/ \E topic \in Topics, t \in TaskIds : pubs = 0 /\ Subscribe(topic, t)
    \/ \E topic \in Topics, kind \in Kinds : PublishOrder(topic, kind, 0)
    \/ \E topic \in Topics : PublishOrder(topic, <<priority_normal, {}>>, 1)
    \/ \E t \in TaskIds : TryReceive(t)

SpecOrder == InitOrder /\ [][NextOrder]_vars

\* the sequence numbers of publisher P's messages on topic X, urgent or not as
\* asked, in the order receive returns the messages d
SequencesOf(d, P, X, urgent) ==
    LET own == SelectSeq(d, LAMBDA m : m.sender_id = P /\ m.type = X /\ is_urgent(m) = urgent)
    IN [i \in 1..Len(own) |-> own[i].sequence_number]

SequencesOfAll(d, P, X) ==
    LET own == SelectSeq(d, LAMBDA m : m.sender_id = P /\ m.type = X)
    IN [i \in 1..Len(own) |-> own[i].sequence_number]

MaxQueueCapacity == 6
MaxSlots == 3
MaxRatioDen == 4

\* the static_asserts of core/config.hpp and message_broker.hpp on the knobs
ValidConfig(cfg) ==
    /\ cfg.queue_capacity >= 1
    /\ cfg.topic_slots >= 1
    /\ cfg.high_ratio_den # 0
    /\ cfg.high_ratio_num <= cfg.high_ratio_den
    /\ cfg.topic_slots <= cfg.queue_capacity

Configs ==
    {cfg \in [queue_capacity : 1..MaxQueueCapacity, topic_slots : 1..MaxSlots,
              high_ratio_num : 1..MaxRatioDen, high_ratio_den : 1..MaxRatioDen] :
        ValidConfig(cfg)}

\* task_mailbox's compile-time capacities, as functions of the knobs
per_topic_total_of(cfg) ==
    IF (cfg.queue_capacity \div cfg.topic_slots) >= min_per_topic_total
    THEN cfg.queue_capacity \div cfg.topic_slots
    ELSE min_per_topic_total

calc_high_of(cfg) ==
    (per_topic_total_of(cfg) * cfg.high_ratio_num) \div cfg.high_ratio_den

high_capacity_of(cfg) == IF calc_high_of(cfg) >= 1 THEN calc_high_of(cfg) ELSE 1

normal_capacity_of(cfg) ==
    LET tmp == IF per_topic_total_of(cfg) > high_capacity_of(cfg)
               THEN per_topic_total_of(cfg) - high_capacity_of(cfg) ELSE 0 IN
    IF tmp >= 1 THEN tmp ELSE 1

\* the messages a mailbox can store: every slot's high and normal buffer
total_capacity(cfg) ==
    cfg.topic_slots * (high_capacity_of(cfg) + normal_capacity_of(cfg))

\* the value set_mailbox_depth stores
clamped_depth(cfg, depth) ==
    IF depth > cfg.queue_capacity THEN cfg.queue_capacity ELSE depth

SetDepth(depth) ==
    /\ depth_limit_' = clamped_depth(config_, depth)
    /\ depth_arg_' = depth
    /\ UNCHANGED <<config_, outsideBuild>>

Depths == 0..(MaxQueueCapacity + 2)

InitBuild ==
    /\ MessagingIdle
    /\ ProtoIdle /\ CodecIdle /\ TaskIdle /\ WaitIdle /\ DispatcherIdle /\ RingIdle /\ PoolIdle /\ DsIdle /\ LayoutIdle /\ LateIdle
    /\ config_ \in Configs
    /\ depth_limit_ = config_.queue_capacity
    /\ depth_arg_ = -1

NextBuild == \E depth \in Depths : SetDepth(depth)

SpecBuild == InitBuild /\ [][NextBuild]_vars

\* C24: in every accepted build a mailbox's depth_limit is at most the
\* mailbox's total capacity (topic slots times the sum of the high and normal
\* sub-queue capacities), and set_mailbox_depth(task, d) leaves depth_limit
\* equal to min(d, total capacity).
C24_DepthWithinTotalCapacity ==
    /\ depth_limit_ <= total_capacity(config_)
    /\ depth_arg_ >= 0 => depth_limit_ = Min(depth_arg_, total_capacity(config_))

(***************************************************************************)
(* SpecDepth: one mailbox whose owner is subscribed to one topic; sends    *)
(* (through publish), receives, depth changes and policy changes           *)
(* interleave freely.  A send is one step: the states between steps are    *)
(* the points where no send is inside the mailbox's critical section.      *)
(***************************************************************************)
MaxDepthPub == 3

DepthValues == 0..(queue_capacity + 1)

InitDepth ==
    /\ topic_slots \in {1, 2}
    /\ mailboxes_ = register_task(<<>>, Owner, OwnerHandle).mbs
    /\ topics_ = subscribe(<<>>, WaitTopic, Owner).ts
    /\ sequence_ = 0
    /\ sent_count_ = 0
    /\ received_count_ = 0
    /\ dropped_count_ = 0
    /\ now = 0
    /\ pubs = 0
    /\ publog = <<>>
    /\ lost = {}
    /\ ret = Ret("subscribe", Owner, WaitTopic, "success", NoMsg)
    /\ QosIdle
    /\ ExtIdle

PublishDepth(kind) ==
    /\ pubs < MaxDepthPub
    /\ PublishCall(WaitTopic, kind, 0)
    /\ UNCHANGED publog

NextDepth ==
    \/ \E kind \in Kinds : PublishDepth(kind)
    \/ TryReceive(Owner)
    \/ \E depth \in DepthValues : SetMailboxDepth(Owner, depth)
    \/ \E b \in BOOLEAN : SetOverflowPolicy(Owner, b)

SpecDepth == InitDepth /\ [][NextDepth]_vars

\* C25: whenever no send is inside the mailbox's critical section, the
\* mailbox's total_size is at most its total capacity and at most its
\* depth_limit, whatever send, receive and set_mailbox_depth calls came before.
C25_SizeWithinLimits ==
    /\ total_size(MailboxOf(Owner)) <= TotalCapacity
    /\ total_size(MailboxOf(Owner)) <= MailboxOf(Owner).depth_limit

\* the part of C25 the mailbox keeps: the stored messages fit the buffers
C25_SizeWithinCapacity == total_size(MailboxOf(Owner)) <= TotalCapacity

(***************************************************************************)
(* SpecDispatcher: registrations, removals, dispatches and clears of one   *)
(* dispatcher with MaxHandlers slots, over MaxHandlers + 1 opcodes         *)
(***************************************************************************)
DispatchOpcodes == 0..MaxHandlers

HandlerFns == {nullptr, 1, 2}

DispatcherRet(op, opcode, fn, result, invoked) ==
    [op |-> op, opcode |-> opcode, fn |-> fn, result |-> result, invoked |-> invoked]

TryRegisterHandler(opcode, fn) ==
    LET r == try_register_handler(dispatcher_, opcode, fn) IN
    /\ dispatcher_' = r.d
    /\ dret' = DispatcherRet("try_register_handler", opcode, fn, r.result, <<>>)
    /\ UNCHANGED outsideDispatcher

DeregisterHandler(opcode) ==
    LET r == deregister_handler(dispatcher_, opcode) IN
    /\ dispatcher_' = r.d
    /\ dret' = DispatcherRet("deregister_handler", opcode, nullptr, r.result, <<>>)
    /\ UNCHANGED outsideDispatcher

SetUnknownHandler(fn) ==
    /\ dispatcher_' = set_unknown_handler(dispatcher_, fn)
    /\ dret' = DispatcherRet("set_unknown_handler", 0, fn, "none", <<>>)
    /\ UNCHANGED outsideDispatcher

Clear ==
    /\ dispatcher_' = clear(dispatcher_)
    /\ dret' = DispatcherRet("clear", 0, nullptr, "none", <<>>)
    /\ UNCHANGED outsideDispatcher

Dispatch(opcode) ==
    /\ dret' = DispatcherRet("dispatch", opcode, nullptr, "none", dispatch(dispatcher_, opcode))
    /\ UNCHANGED <<dispatcher_, outsideDispatcher>>

InitDispatcher ==
    /\ MessagingIdle
    /\ ExtIdle

NextDispatcher ==
    \/ \E opcode \in DispatchOpcodes, fn \in HandlerFns : TryRegisterHandler(opcode, fn)
    \/ \E opcode \in DispatchOpcodes : DeregisterHandler(opcode)
    \/ \E fn \in HandlerFns : SetUnknownHandler(fn)
    \/ Clear
    \/ \E opcode \in DispatchOpcodes : Dispatch(opcode)

SpecDispatcher == InitDispatcher /\ [][NextDispatcher]_vars

\* the opcodes that have a live entry, and the map the table stands for
RegisteredOpcodes(d) == {d.table_[i].opcode : i \in {j \in 1..d.size_ : d.table_[j].used}}

AsMap(d) == [opcode \in RegisteredOpcodes(d) |-> get_handler(d, opcode)]

\* C26: the dispatcher is a bounded map from opcode to handler.  In every
\* state each opcode has at most one entry and size <= MaxHandlers.
\* try_register_handler returns ok_replaced when the opcode is registered
\* (its handler becomes the new one), ok_new when it is not and there is
\* room (the opcode is added), and full with the table unchanged otherwise;
\* deregister_handler removes the named opcode and nothing else; dispatch
\* invokes exactly the handler registered for the packet's opcode, or the
\* unknown handler (if set) when the opcode is not registered.
C26_BoundedMap ==
    /\ [](/\ dispatcher_.size_ <= MaxHandlers
          /\ \A i, j \in 1..dispatcher_.size_ :
                 /\ dispatcher_.table_[i].used
                 /\ (dispatcher_.table_[i].opcode = dispatcher_.table_[j].opcode => i = j))
    /\ [][LET d == dispatcher_
              before == AsMap(dispatcher_)
              after == AsMap(dispatcher_')
              call == dret'
              was_registered == call.opcode \in RegisteredOpcodes(dispatcher_) IN
          /\ call.op = "try_register_handler" =>
                IF was_registered
                THEN /\ call.result = "ok_replaced"
                     /\ after = [before EXCEPT ![call.opcode] = call.fn]
                ELSE IF Cardinality(RegisteredOpcodes(d)) < MaxHandlers
                THEN /\ call.result = "ok_new"
                     /\ after = [opcode \in RegisteredOpcodes(d) \cup {call.opcode} |->
                                    IF opcode = call.opcode THEN call.fn ELSE before[opcode]]
                ELSE /\ call.result = "full"
                     /\ dispatcher_' = dispatcher_
          /\ call.op = "deregister_handler" =>
                /\ call.result = was_registered
                /\ after = [opcode \in RegisteredOpcodes(d) \ {call.opcode} |-> before[opcode]]
          /\ call.op = "dispatch" =>
                /\ dispatcher_' = dispatcher_
                /\ call.invoked =
                       IF was_registered
                       THEN (IF before[call.opcode] # nullptr THEN <<before[call.opcode]>> ELSE <<>>)
                       ELSE (IF d.unknown_ # nullptr THEN <<d.unknown_>> ELSE <<>>)
         ]_vars

\* an opcode was removed from a full table that still holds another opcode
C26_Witness ==
    /\ dret.op = "deregister_handler"
    /\ dret.result = TRUE
    /\ dispatcher_.size_ = MaxHandlers - 1
    /\ dispatcher_.size_ >= 1
    /\ dispatcher_.table_[1].opcode > dret.opcode

(***************************************************************************)
(* SpecRing: one producer calling push and one consumer calling pop on the *)
(* same ring, interleaved at each read and write of head_, tail_ and a     *)
(* buffer cell.  head_ and tail_ are plain size_t members and the cells    *)
(* plain bytes, with no atomic, volatile or fence: the two threads race,   *)
(* and a build may perform the two accesses that end push (store the       *)
(* cell, store head_) and the two that end pop (load the cell, store       *)
(* tail_) in either order.  Init chooses the build: in_order builds keep   *)
(* program order, the others may take either order in each call.  The      *)
(* k-th push call pushes the byte k.                                       *)
(***************************************************************************)
MaxRingPush == 4
MaxRingPop == 4

\* push: const size_t next = next_index(head_)
PushReadHead ==
    /\ producer_.pc = "idle"
    /\ ring_calls.push < MaxRingPush
    /\ producer_' = [pc |-> "check", b |-> ring_calls.push + 1, head |-> ring_.head_,
                     next |-> next_index(ring_.head_), ret |-> "none"]
    /\ ring_calls' = [ring_calls EXCEPT !.push = @ + 1]
    /\ UNCHANGED <<ring_, consumer_, pushed, popped, in_order, outsideRing>>

\* push: if (next == tail_) return false
PushReadTail ==
    /\ producer_.pc = "check"
    /\ producer_' = IF producer_.next = ring_.tail_
                    THEN [producer_ EXCEPT !.pc = "idle", !.ret = FALSE]
                    ELSE [producer_ EXCEPT !.pc = "store"]
    /\ UNCHANGED <<ring_, consumer_, pushed, popped, ring_calls, in_order, outsideRing>>

\* push: buf_[head_] = b, before head_ is stored
PushStoreCell ==
    /\ producer_.pc = "store"
    /\ ring_' = [ring_ EXCEPT !.buf_[producer_.head] = producer_.b]
    /\ producer_' = [producer_ EXCEPT !.pc = "publish"]
    /\ UNCHANGED <<consumer_, pushed, popped, ring_calls, in_order, outsideRing>>

\* push: head_ = next; return true
PushStoreHead ==
    /\ producer_.pc = "publish"
    /\ ring_' = [ring_ EXCEPT !.head_ = producer_.next]
    /\ producer_' = [producer_ EXCEPT !.pc = "idle", !.ret = TRUE]
    /\ pushed' = Append(pushed, producer_.b)
    /\ UNCHANGED <<consumer_, popped, ring_calls, in_order, outsideRing>>

\* push in a build that stores head_ before the cell
PushStoreHeadEarly ==
    /\ producer_.pc = "store"
    /\ ~in_order
    /\ ring_' = [ring_ EXCEPT !.head_ = producer_.next]
    /\ producer_' = [producer_ EXCEPT !.pc = "store_late"]
    /\ pushed' = Append(pushed, producer_.b)
    /\ UNCHANGED <<consumer_, popped, ring_calls, in_order, outsideRing>>

PushStoreCellLate ==
    /\ producer_.pc = "store_late"
    /\ ring_' = [ring_ EXCEPT !.buf_[producer_.head] = producer_.b]
    /\ producer_' = [producer_ EXCEPT !.pc = "idle", !.ret = TRUE]
    /\ UNCHANGED <<consumer_, pushed, popped, ring_calls, in_order, outsideRing>>

\* pop: if (empty()) return false
PopReadHead ==
    /\ consumer_.pc = "idle"
    /\ ring_calls.pop < MaxRingPop
    /\ consumer_' = IF empty(ring_)
                    THEN [consumer_ EXCEPT !.ret = FALSE]
                    ELSE [pc |-> "load", tail |-> ring_.tail_, out |-> 0, ret |-> "none"]
    /\ ring_calls' = [ring_calls EXCEPT !.pop = @ + 1]
    /\ UNCHANGED <<ring_, producer_, pushed, popped, in_order, outsideRing>>

\* pop: out = buf_[tail_], before tail_ is stored
PopLoadCell ==
    /\ consumer_.pc = "load"
    /\ consumer_' = [consumer_ EXCEPT !.out = ring_.buf_[consumer_.tail], !.pc = "advance"]
    /\ UNCHANGED <<ring_, producer_, pushed, popped, ring_calls, in_order, outsideRing>>

\* pop: tail_ = next_index(tail_); return true
PopStoreTail ==
    /\ consumer_.pc = "advance"
    /\ ring_' = [ring_ EXCEPT !.tail_ = next_index(consumer_.tail)]
    /\ consumer_' = [consumer_ EXCEPT !.pc = "idle", !.ret = TRUE]
    /\ popped' = Append(popped, consumer_.out)
    /\ UNCHANGED <<producer_, pushed, ring_calls, in_order, outsideRing>>

\* pop in a build that stores tail_ before it loads the cell
PopStoreTailEarly ==
    /\ consumer_.pc = "load"
    /\ ~in_order
    /\ ring_' = [ring_ EXCEPT !.tail_ = next_index(consumer_.tail)]
    /\ consumer_' = [consumer_ EXCEPT !.pc = "load_late"]
    /\ UNCHANGED <<producer_, pushed, popped, ring_calls, in_order, outsideRing>>

PopLoadCellLate ==
    /\ consumer_.pc = "load_late"
    /\ consumer_' = [consumer_ EXCEPT !.out = ring_.buf_[consumer_.tail], !.pc = "idle",
                                     !.ret = TRUE]
    /\ popped' = Append(popped, ring_.buf_[consumer_.tail])
    /\ UNCHANGED <<ring_, producer_, pushed, ring_calls, in_order, outsideRing>>

InitRing ==
    /\ MessagingIdle
    /\ ProtoIdle /\ CodecIdle /\ TaskIdle /\ WaitIdle /\ BuildIdle /\ DispatcherIdle /\ PoolIdle /\ DsIdle /\ LayoutIdle /\ LateIdle
    /\ ring_ = NewRing
    /\ producer_ = ProducerIdle
    /\ consumer_ = ConsumerIdle
    /\ pushed = <<>>
    /\ popped = <<>>
    /\ ring_calls = [push |-> 0, pop |-> 0]
    /\ in_order \in BOOLEAN

NextRing ==
    \/ PushReadHead
    \/ PushReadTail
    \/ PushStoreCell
    \/ PushStoreHead
    \/ PushStoreHeadEarly
    \/ PushStoreCellLate
    \/ PopReadHead
    \/ PopLoadCell
    \/ PopStoreTail
    \/ PopStoreTailEarly
    \/ PopLoadCellLate

SpecRing == InitRing /\ [][NextRing]_vars

IsPrefix(s, t) == Len(s) <= Len(t) /\ \A i \in 1..Len(s) : s[i] = t[i]

C27_FifoInProgramOrder ==
    /\ [](in_order => IsPrefix(popped, pushed))
    /\ [][(producer_.pc = "check" /\ producer_'.pc = "idle") => full(ring_)]_vars

(***************************************************************************)
(* SpecPool: one pool of BlockCount blocks; handles live in NumSlots named *)
(* slots and, in any number, elsewhere (held_).  Handles are allocated,    *)
(* copy- and move-constructed, copy- and move-assigned and destroyed; a    *)
(* container of copies of a handle is filled, and emptied, in one step.    *)
(***************************************************************************)
MaxPoolOps == 5

AllocSizes == {BlockSize, BlockSize + 1}

CopyCounts == {1, refs_max}

\* the handle objects that refer to block b
HandlesOn(hs, held, b) ==
    held[b] + Cardinality({h \in Slots : hs[h].alive /\ valid(hs[h]) /\ hs[h].index_ = b})

LiveHandles(b) == HandlesOn(handles_, held_, b)

\* ends every operation: counts it and notes whether some block ever had
\* more handles than a u16 count can hold
Done(op, slot) ==
    /\ zc_ops' = zc_ops + 1
    /\ zret' = [op |-> op, slot |-> slot,
                over |-> zret.over \/ \E b \in Blocks : HandlesOn(handles_', held_', b) > refs_max]
    /\ UNCHANGED outsidePool

Allocate(slot, size) ==
    LET r == allocate(zc_pool_, size) IN
    /\ zc_ops < MaxPoolOps
    /\ ~handles_[slot].alive
    /\ zc_pool_' = r.pool
    /\ handles_' = [handles_ EXCEPT ![slot] = r.handle]
    /\ UNCHANGED held_
    /\ Done("allocate", slot)

\* zc_handle(const zc_handle&)
CopyConstruct(dst, src) ==
    /\ zc_ops < MaxPoolOps
    /\ ~handles_[dst].alive /\ handles_[src].alive
    /\ handles_' = [handles_ EXCEPT ![dst] = handles_[src]]
    /\ zc_pool_' = handle_add_ref(zc_pool_, handles_[src])
    /\ UNCHANGED held_
    /\ Done("copy", dst)

\* zc_handle(zc_handle&&)
MoveConstruct(dst, src) ==
    /\ zc_ops < MaxPoolOps
    /\ ~handles_[dst].alive /\ handles_[src].alive
    /\ handles_' = [handles_ EXCEPT ![dst] = handles_[src], ![src] = NullHandle]
    /\ UNCHANGED <<zc_pool_, held_>>
    /\ Done("move", dst)

\* operator=(const zc_handle&), this != &other
CopyAssign(dst, src) ==
    /\ zc_ops < MaxPoolOps
    /\ dst # src /\ handles_[dst].alive /\ handles_[src].alive
    /\ handles_' = [handles_ EXCEPT ![dst] = handles_[src]]
    /\ zc_pool_' = handle_add_ref(handle_release(zc_pool_, handles_[dst]), handles_[src])
    /\ UNCHANGED held_
    /\ Done("copy_assign", dst)

\* operator=(zc_handle&&), this != &other
MoveAssign(dst, src) ==
    /\ zc_ops < MaxPoolOps
    /\ dst # src /\ handles_[dst].alive /\ handles_[src].alive
    /\ handles_' = [handles_ EXCEPT ![dst] = handles_[src], ![src] = NullHandle]
    /\ zc_pool_' = handle_release(zc_pool_, handles_[dst])
    /\ UNCHANGED held_
    /\ Done("move_assign", dst)

\* ~zc_handle()
Destroy(slot) ==
    /\ zc_ops < MaxPoolOps
    /\ handles_[slot].alive
    /\ handles_' = [handles_ EXCEPT ![slot] = NoHandle]
    /\ zc_pool_' = handle_release(zc_pool_, handles_[slot])
    /\ UNCHANGED held_
    /\ Done("destroy", slot)

\* k copies of the handle in a slot are constructed elsewhere
StashCopies(src, k) ==
    /\ zc_ops < MaxPoolOps
    /\ handles_[src].alive /\ valid(handles_[src])
    /\ held_' = [held_ EXCEPT ![handles_[src].index_] = @ + k]
    /\ zc_pool_' = add_ref_times(zc_pool_, handles_[src].index_, k)
    /\ UNCHANGED handles_
    /\ Done("copy", src)

\* k of the handles held elsewhere on block b are destroyed
DropStashed(b, k) ==
    /\ zc_ops < MaxPoolOps
    /\ k >= 1 /\ k <= held_[b]
    /\ held_' = [held_ EXCEPT ![b] = @ - k]
    /\ zc_pool_' = release_times(zc_pool_, b, k)
    /\ UNCHANGED handles_
    /\ Done("destroy", 0)

InitPool ==
    /\ MessagingIdle
    /\ ExtIdle

NextPool ==
    \/ \E slot \in Slots, size \in AllocSizes : Allocate(slot, size)
    \/ \E dst, src \in Slots : CopyConstruct(dst, src)
    \/ \E dst, src \in Slots : MoveConstruct(dst, src)
    \/ \E dst, src \in Slots : CopyAssign(dst, src)
    \/ \E dst, src \in Slots : MoveAssign(dst, src)
    \/ \E slot \in Slots : Destroy(slot)
    \/ \E src \in Slots, k \in CopyCounts : StashCopies(src, k)
    \/ \E b \in Blocks, k \in CopyCounts : DropStashed(b, k)

SpecPool == InitPool /\ [][NextPool]_vars

\* the free list from index idx on, at most n entries of it
RECURSIVE FreeWalk(_, _, _)
FreeWalk(pool, idx, n) ==
    IF idx = no_index \/ n = 0 THEN <<>>
    ELSE <<idx>> \o FreeWalk(pool, pool.nodes_[idx].next, n - 1)

FreeList(pool) == FreeWalk(pool, pool.free_head_, BlockCount + 1)

OnFreeList(pool, b) == \E i \in 1..Len(FreeList(pool)) : FreeList(pool)[i] = b

PoolConsistent ==
    /\ \A b \in Blocks :
          /\ LiveHandles(b) > 0 => (~OnFreeList(zc_pool_, b) /\ zc_pool_.nodes_[b].in_use)
          /\ LiveHandles(b) = 0 => OnFreeList(zc_pool_, b)
    /\ \A i, j \in 1..Len(FreeList(zc_pool_)) :
          FreeList(zc_pool_)[i] = FreeList(zc_pool_)[j] => i = j
    /\ Cardinality({b \in Blocks : OnFreeList(zc_pool_, b)})
         + Cardinality({b \in Blocks : zc_pool_.nodes_[b].in_use}) = BlockCount

\* C28: after any sequence of allocate, handle copy, move, assignment and
\* destruction, a block is on the free list exactly when no handle refers to
\* it: a block with a live handle is never on the free list and never handed
\* out again, no block is on the free list twice, and the free blocks plus
\* the blocks in use are BlockCount.
C28_FreedWithLastHandle ==
    /\ []PoolConsistent
    /\ [][(zret'.op = "allocate" /\ valid(handles_'[zret'.slot]))
            => LiveHandles(handles_'[zret'.slot].index_) = 0]_vars

\* what holds of C28: the same statement as long as no block ever had more
\* than 65535 handles at once
C28_FreedWithLastHandleUnderRefLimit ==
    /\ [](~zret.over => PoolConsistent)
    /\ [][(~zret'.over /\ zret'.op = "allocate" /\ valid(handles_'[zret'.slot]))
            => LiveHandles(handles_'[zret'.slot].index_) = 0]_vars

(***************************************************************************)
(* SpecDs: one distributed_state node (task 0) among MaxPeers nodes.  It   *)
(* proposes states and is handed, through process_message, whatever its    *)
(* peers may publish on the three topics: proposals, accepting and         *)
(* refusing ACKs for any sequence, more than once, commits, and ACKs too   *)
(* short to decode.                                                        *)
(***************************************************************************)
MaxPeers == 4
MaxOutstanding == 2
MaxProposals == 2
MaxDsOps == 4

ProposeTopicId == 20
AckTopicId == 21
CommitTopicId == 22

self_task_id_ == 0
Peers == 1..(MaxPeers - 1)
States == {1, 2}
sizeof_StateT == 1
broadcast_id == U16 - 1

Lo(x) == x % 256
Hi(x) == (x \div 256) % 256
U16Of(lo, hi) == (lo + hi * 256) % U16

DsMessage(type, receiver_id, seq, payload) ==
    [type |-> type, sender_id |-> self_task_id_, receiver_id |-> receiver_id,
     sequence_number |-> seq, payload_size |-> Len(payload), payload |-> payload]

encode_proposal_(seq, from, state_obj) == <<Lo(seq), Hi(seq), Lo(from), Hi(from), state_obj>>

decode_proposal_(msg) ==
    IF msg.payload_size < sizeof_StateT + 4 THEN [ok |-> FALSE, seq |-> 0, from |-> 0, state |-> 0]
    ELSE [ok |-> TRUE, seq |-> U16Of(msg.payload[1], msg.payload[2]),
          from |-> U16Of(msg.payload[3], msg.payload[4]), state |-> msg.payload[5]]

encode_ack_(seq, from, accept) ==
    <<Lo(seq), Hi(seq), Lo(from), Hi(from), IF accept THEN 1 ELSE 0>>

decode_ack_(msg) ==
    IF msg.payload_size < 5 THEN [ok |-> FALSE, seq |-> 0, from |-> 0, accept |-> FALSE]
    ELSE [ok |-> TRUE, seq |-> U16Of(msg.payload[1], msg.payload[2]),
          from |-> U16Of(msg.payload[3], msg.payload[4]), accept |-> msg.payload[5] # 0]

encode_commit_(seq, state_obj) == <<Lo(seq), Hi(seq), state_obj>>

decode_commit_(msg) ==
    IF msg.payload_size < sizeof_StateT + 2 THEN [ok |-> FALSE, seq |-> 0, state |-> 0]
    ELSE [ok |-> TRUE, seq |-> U16Of(msg.payload[1], msg.payload[2]), state |-> msg.payload[3]]

\* [ds, sent, seq]: seq is the value returned
propose(ds, new_state) ==
    IF Cardinality(DOMAIN ds.pending_) >= MaxOutstanding
    THEN [ds |-> ds, sent |-> <<>>, seq |-> 0]
    ELSE LET seq == ds.local_seq_ % U16
             \* etl::map::insert keeps the entry of a key that is already there
             inserted == IF seq \in DOMAIN ds.pending_ THEN ds.pending_
                         ELSE MapPut(ds.pending_, seq, [state |-> new_state, acks |-> 1]) IN
         [ds |-> [ds EXCEPT !.local_seq_ = @ + 1, !.pending_ = inserted],
          sent |-> <<DsMessage(ProposeTopicId, broadcast_id, seq,
                               encode_proposal_(seq, self_task_id_, new_state))>>,
          seq |-> seq]

on_propose_(ds, msg, accept) ==
    LET p == decode_proposal_(msg) IN
    IF ~p.ok \/ p.from = self_task_id_ \/ ~accept THEN [ds |-> ds, sent |-> <<>>]
    ELSE [ds |-> ds,
          sent |-> <<DsMessage(AckTopicId, p.from, p.seq, encode_ack_(p.seq, self_task_id_, TRUE))>>]

majority == (MaxPeers \div 2) + 1

\* an on_ack_ that commits on the first accepting ACK
on_ack_first(ds, msg) ==
    LET a == decode_ack_(msg) IN
    IF ~a.ok \/ ~a.accept \/ a.seq \notin DOMAIN ds.pending_ THEN [ds |-> ds, sent |-> <<>>]
    ELSE [ds |-> [ds EXCEPT !.state_ = ds.pending_[a.seq].state,
                            !.pending_ = MapErase(ds.pending_, a.seq)],
          sent |-> <<DsMessage(CommitTopicId, broadcast_id, a.seq,
                               encode_commit_(a.seq, ds.pending_[a.seq].state))>>]

on_ack_(ds, msg) ==
    LET a == decode_ack_(msg) IN
    IF ~a.ok \/ ~a.accept \/ a.seq \notin DOMAIN ds.pending_ THEN [ds |-> ds, sent |-> <<>>]
    ELSE LET info == [ds.pending_[a.seq] EXCEPT !.acks = (@ + 1) % U16] IN
         IF info.acks >= majority
         THEN [ds |-> [ds EXCEPT !.state_ = info.state,
                                 !.pending_ = MapErase(ds.pending_, a.seq)],
               sent |-> <<DsMessage(CommitTopicId, broadcast_id, a.seq,
                                    encode_commit_(a.seq, info.state))>>]
         ELSE [ds |-> [ds EXCEPT !.pending_[a.seq] = info], sent |-> <<>>]

on_commit_(ds, msg) ==
    LET c == decode_commit_(msg) IN
    IF ~c.ok THEN [ds |-> ds, sent |-> <<>>]
    ELSE [ds |-> [ds EXCEPT !.state_ = c.state], sent |-> <<>>]

\* accept is what the guard answers, should the message be a proposal
process_message(ds, msg, accept) ==
    IF msg.type = ProposeTopicId THEN on_propose_(ds, msg, accept)
    ELSE IF msg.type = AckTopicId THEN on_ack_(ds, msg)
    ELSE IF msg.type = CommitTopicId THEN on_commit_(ds, msg)
    ELSE [ds |-> ds, sent |-> <<>>]

\* what a peer can publish
PeerMessage(type, from, seq, payload) ==
    [type |-> type, sender_id |-> from, receiver_id |-> broadcast_id,
     sequence_number |-> seq, payload_size |-> Len(payload), payload |-> payload]

Inbox ==
    {PeerMessage(AckTopicId, from, seq, encode_ack_(seq, from, accept)) :
        from \in Peers, seq \in 1..MaxProposals, accept \in BOOLEAN}
    \cup {PeerMessage(AckTopicId, from, 1, <<1, 0, from, 0>>) : from \in Peers}
    \cup {PeerMessage(ProposeTopicId, from, 1, encode_proposal_(1, from, st)) :
             from \in Peers \cup {self_task_id_}, st \in States}
    \cup {PeerMessage(CommitTopicId, from, 1, encode_commit_(1, st)) :
             from \in Peers, st \in States}

\* the accepting ACKs for a pending sequence, by peer and by number
AckNoted(acked, ds, msg) ==
    LET a == decode_ack_(msg)
        old == IF a.seq \in DOMAIN acked THEN acked[a.seq] ELSE [peers |-> {}, count |-> 0] IN
    IF msg.type = AckTopicId /\ a.ok /\ a.accept /\ a.seq \in DOMAIN ds.pending_
    THEN MapPut(acked, a.seq, [peers |-> old.peers \cup {a.from}, count |-> old.count + 1])
    ELSE acked

CommitsIn(sent, acked) ==
    [i \in 1..Len(SelectSeq(sent, LAMBDA m : m.type = CommitTopicId)) |->
        LET m == SelectSeq(sent, LAMBDA x : x.type = CommitTopicId)[i] IN
        [seq |-> m.sequence_number, state |-> m.payload[3],
         peers |-> acked[m.sequence_number].peers, count |-> acked[m.sequence_number].count]]

DsPropose(new_state) ==
    LET r == propose(ds_, new_state) IN
    /\ ds_.local_seq_ <= MaxProposals
    /\ ds_' = r.ds
    /\ ds_sent' = ds_sent \o r.sent
    /\ UNCHANGED <<ds_acked, ds_commits, ds_ops, outsideDs>>

DsProcessMessage(msg, accept) ==
    LET r == process_message(ds_, msg, accept) IN
    /\ ds_ops < MaxDsOps
    /\ ds_' = r.ds
    /\ ds_sent' = ds_sent \o r.sent
    /\ ds_acked' = AckNoted(ds_acked, ds_, msg)
    /\ ds_commits' = ds_commits \o CommitsIn(r.sent, ds_acked')
    /\ ds_ops' = ds_ops + 1
    /\ UNCHANGED outsideDs

InitDs ==
    /\ MessagingIdle
    /\ ExtIdle

NextDs ==
    \/ \E new_state \in States : DsPropose(new_state)
    \/ \E msg \in Inbox, accept \in BOOLEAN : DsProcessMessage(msg, accept)

SpecDs == InitDs /\ [][NextDs]_vars

\* C29: the node commits a proposal (adopts its state and publishes the
\* commit) only after accepting ACKs for the proposal's sequence from so many
\* distinct peers that they and the node itself are a majority of MaxPeers:
\* repeated ACKs of one peer count once.  Each proposal is committed at most
\* once.
C29_CommitNeedsDistinctPeers ==
    /\ \A i \in 1..Len(ds_commits) : Cardinality(ds_commits[i].peers) + 1 >= majority
    /\ \A i, j \in 1..Len(ds_commits) : ds_commits[i].seq = ds_commits[j].seq => i = j

\* what holds of C29: a commit follows majority - 1 accepting ACK messages
\* for the sequence, whoever sent them, and each proposal is committed at
\* most once
C29_CommitNeedsAckMessages ==
    /\ \A i \in 1..Len(ds_commits) : ds_commits[i].count + 1 >= majority
    /\ \A i, j \in 1..Len(ds_commits) : ds_commits[i].seq = ds_commits[j].seq => i = j

(***************************************************************************)
(* SpecLayout: the region sizes and the budget of a build are chosen, and  *)
(* a build that passes the budget checks computes its layout               *)
(***************************************************************************)
MaxRegionBytes == 9
MaxBudgetBytes == 64

\* (v + (a - 1)) & ~(a - 1), a a power of two: the low bits of v + a - 1 are cleared
align_up(v, a) == (v + (a - 1)) - ((v + (a - 1)) % a)

layout_alignment == 8

\* layout::compute: the regions in declaration order, each at the aligned
\* running offset
RECURSIVE PlaceRegions(_, _, _)
PlaceRegions(uppers, i, off) ==
    IF i > Len(RegionNames) THEN [regions |-> <<>>, off |-> off]
    ELSE LET at == align_up(off, layout_alignment)
             rest == PlaceRegions(uppers, i + 1, at + uppers[RegionNames[i]]) IN
         [regions |-> <<[offset |-> at, size |-> uppers[RegionNames[i]]]>> \o rest.regions,
          off |-> rest.off]

compute(uppers) ==
    LET placed == PlaceRegions(uppers, 1, 0) IN
    [computed |-> TRUE,
     regions |-> placed.regions,
     total |-> align_up(placed.off, layout_alignment)]

required_bytes(uppers) == compute(uppers).total

total_required_upper(uppers) ==
    uppers.messaging + uppers.events + uppers.tasks + uppers.os + uppers.protocol
    + uppers.diagnostics + uppers.pools

kEffectiveEmcoreBudget(b) == IF b.budget > b.headroom THEN b.budget - b.headroom ELSE 0

\* the two static_asserts a build has to pass
BudgetAccepted(uppers, b) ==
    /\ total_required_upper(uppers) <= kEffectiveEmcoreBudget(b)
    /\ required_bytes(uppers) <= b.budget

SmallSizes == 0..MaxRegionBytes
ReservedSizes == {0, 5, 8}
Budgets == {MaxBudgetBytes - 40, MaxBudgetBytes - 24, MaxBudgetBytes - 16, MaxBudgetBytes}
Headrooms == {0, 4}

ComputeLayout ==
    /\ kLayout = NoLayout
    /\ BudgetAccepted(uppers_, budget_)
    /\ kLayout' = compute(uppers_)
    /\ UNCHANGED <<uppers_, budget_, outsideLayout>>

InitLayout ==
    /\ MessagingIdle
    /\ ProtoIdle /\ CodecIdle /\ TaskIdle /\ WaitIdle
    /\ BuildIdle /\ DispatcherIdle /\ RingIdle /\ PoolIdle /\ DsIdle /\ LateIdle
    /\ uppers_ \in [messaging : SmallSizes, events : SmallSizes, tasks : ReservedSizes,
                     os : ReservedSizes, protocol : ReservedSizes,
                     diagnostics : ReservedSizes, pools : {0, 8}]
    /\ budget_ \in [budget : Budgets, headroom : Headrooms]
    /\ kLayout = NoLayout

NextLayout == ComputeLayout

SpecLayout == InitLayout /\ [][NextLayout]_vars

RegionsPlaced ==
    /\ \A i \in 1..Len(RegionNames) :
          /\ kLayout.regions[i].offset % layout_alignment = 0
          /\ kLayout.regions[i].size = uppers_[RegionNames[i]]
    /\ kLayout.regions[1].offset >= 0
    /\ \A i \in 1..(Len(RegionNames) - 1) :
          kLayout.regions[i + 1].offset >= kLayout.regions[i].offset + kLayout.regions[i].size
    /\ kLayout.total >= kLayout.regions[Len(RegionNames)].offset
                          + kLayout.regions[Len(RegionNames)].size

C30_LayoutWithinRawBudget ==
    kLayout.computed =>
        /\ RegionsPlaced
        /\ kLayout.total <= budget_.budget
        /\ total_required_upper(uppers_) <= kEffectiveEmcoreBudget(budget_)


(***************************************************************************)
(* event_bus: registration, bounded queue and dispatch                     *)
(***************************************************************************)
max_event_handlers == 2   \* config::max_event_handlers of the modelled build
event_queue_size == 2     \* config::event_queue_size of the modelled build
category_any == 255
code_any == 65535

\* events::id values used by registrations, and the events posted; ts tells equal ids apart
EventIdents == {[cat |-> 1, code |-> 5], [cat |-> category_any, code |-> 5],
                [cat |-> 1, code |-> code_any], [cat |-> category_any, code |-> code_any]}
PostedEvents == {[ident |-> [cat |-> 1, code |-> 5], ts |-> 0],
                 [ident |-> [cat |-> 2, code |-> 5], ts |-> 0],
                 [ident |-> [cat |-> 1, code |-> 6], ts |-> 1]}
ProcessLimits == 0..(event_queue_size + 1)

bus_initialize(bus) == [bus |-> [bus EXCEPT !.initialized_ = TRUE], ok |-> TRUE]

\* the delegate of a registration is identified by the registration's position in handlers_
register_handler(bus, ident) ==
    IF ~bus.initialized_ \/ Len(bus.handlers_) = max_event_handlers
    THEN [bus |-> bus, ok |-> FALSE]
    ELSE [bus |-> [bus EXCEPT !.handlers_ = Append(@, [ident |-> ident, active |-> TRUE])],
          ok |-> TRUE]

unregister_handler(bus, ident) ==
    LET hit == {i \in 1..Len(bus.handlers_) :
                    /\ bus.handlers_[i].active
                    /\ bus.handlers_[i].ident.cat = ident.cat
                    /\ bus.handlers_[i].ident.code = ident.code}
    IN IF ~bus.initialized_ \/ hit = {}
       THEN [bus |-> bus, ok |-> FALSE]
       ELSE [bus |-> [bus EXCEPT !.handlers_[CHOOSE i \in hit : \A j \in hit : i <= j].active = FALSE],
             ok |-> TRUE]

post(bus, evt) ==
    IF ~bus.initialized_ \/ Len(bus.queue_) = event_queue_size
    THEN [bus |-> bus, ok |-> FALSE]
    ELSE [bus |-> [bus EXCEPT !.queue_ = Append(@, evt)], ok |-> TRUE]

\* dispatch with the wildcards left out
bus_dispatch_exact(bus, evt) ==
    SelectSeq([i \in 1..Len(bus.handlers_) |-> i],
              LAMBDA i : /\ bus.handlers_[i].active
                         /\ bus.handlers_[i].ident.cat = evt.ident.cat
                         /\ bus.handlers_[i].ident.code = evt.ident.code)

\* dispatch(evt): the positions of the handlers it calls, in call order
bus_dispatch(bus, evt) ==
    LET cat_match(hnd) == hnd.ident.cat = category_any \/ hnd.ident.cat = evt.ident.cat
        code_match(hnd) == hnd.ident.code = code_any \/ hnd.ident.code = evt.ident.code
    IN SelectSeq([i \in 1..Len(bus.handlers_) |-> i],
                 LAMBDA i : bus.handlers_[i].active /\ cat_match(bus.handlers_[i])
                            /\ code_match(bus.handlers_[i]))

RECURSIVE ProcessLoop(_, _, _, _)
ProcessLoop(bus, max_events, count, calls) ==
    IF bus.queue_ # <<>> /\ count < max_events
    THEN ProcessLoop([bus EXCEPT !.queue_ = Tail(@)], max_events, count + 1,
                     Append(calls, [evt |-> Head(bus.queue_),
                                    called |-> bus_dispatch(bus, Head(bus.queue_))]))
    ELSE [bus |-> bus, count |-> count, calls |-> calls]

process(bus, max_events) ==
    IF ~bus.initialized_ THEN [bus |-> bus, count |-> 0, calls |-> <<>>]
    ELSE ProcessLoop(bus, max_events, 0, <<>>)

BusInitialize ==
    /\ bus_' = bus_initialize(bus_).bus
    /\ bret' = [op |-> "initialize", ok |-> TRUE, calls |-> <<>>]
    /\ UNCHANGED outsideEvent

RegisterHandler(ident) ==
    /\ bus_' = register_handler(bus_, ident).bus
    /\ bret' = [op |-> "register_handler", arg |-> ident,
                ok |-> register_handler(bus_, ident).ok, calls |-> <<>>]
    /\ UNCHANGED outsideEvent

UnregisterHandler(ident) ==
    /\ bus_' = unregister_handler(bus_, ident).bus
    /\ bret' = [op |-> "unregister_handler", arg |-> ident,
                ok |-> unregister_handler(bus_, ident).ok, calls |-> <<>>]
    /\ UNCHANGED outsideEvent

Post(evt) ==
    /\ bus_' = post(bus_, evt).bus
    /\ bret' = [op |-> "post", arg |-> evt, ok |-> post(bus_, evt).ok, calls |-> <<>>]
    /\ UNCHANGED outsideEvent

Process(max_events) ==
    /\ bus_' = process(bus_, max_events).bus
    /\ bret' = [op |-> "process", arg |-> max_events, ok |-> TRUE,
                calls |-> process(bus_, max_events).calls]
    /\ UNCHANGED outsideEvent

InitEvent ==
    /\ MessagingIdle
    /\ ExtIdle

NextEvent ==
    \/ BusInitialize
    \/ \E ident \in EventIdents : RegisterHandler(ident)
    \/ \E ident \in EventIdents : UnregisterHandler(ident)
    \/ \E evt \in PostedEvents : Post(evt)
    \/ \E max_events \in ProcessLimits : Process(max_events)

SpecEvent == InitEvent /\ [][NextEvent]_vars

\* the registration hnd matches the event evt, a category of any or a code of 0xFFFF
\* standing for every category or code
RegistrationMatches(hnd, evt) ==
    /\ hnd.ident.cat \in {category_any, evt.ident.cat}
    /\ hnd.ident.code \in {code_any, evt.ident.code}

\* C31: the event queue is a bounded FIFO: post fails and leaves the bus unchanged
\* exactly when the bus is not initialized or the queue is full, and otherwise appends
\* the event; process(n) takes at most n events from the front of the queue, in post
\* order, and hands each one once to every active handler whose registration matches
\* it (any / 0xFFFF being wildcards) and to no other handler.
C31_BoundedFifoDispatch ==
    [][/\ bret'.op = "post" =>
            LET refused == ~bus_.initialized_ \/ Len(bus_.queue_) = event_queue_size
            IN /\ bret'.ok = ~refused
               /\ refused => bus_' = bus_
               /\ ~refused => bus_'.queue_ = Append(bus_.queue_, bret'.arg)
               /\ Len(bus_'.queue_) <= event_queue_size
       /\ bret'.op = "process" =>
            LET taken == Len(bret'.calls)
            IN /\ taken <= bret'.arg
               /\ taken <= Len(bus_.queue_)
               /\ bus_'.queue_ = SubSeq(bus_.queue_, taken + 1, Len(bus_.queue_))
               /\ \A k \in 1..taken :
                    /\ bret'.calls[k].evt = bus_.queue_[k]
                    /\ \A i \in 1..Len(bus_.handlers_) :
                         Cardinality({c \in 1..Len(bret'.calls[k].called) :
                                          bret'.calls[k].called[c] = i})
                         = IF bus_.handlers_[i].active
                              /\ RegistrationMatches(bus_.handlers_[i], bus_.queue_[k])
                           THEN 1 ELSE 0
                    /\ \A c \in 1..Len(bret'.calls[k].called) :
                         bret'.calls[k].called[c] \in 1..Len(bus_.handlers_)]_vars

\* a process call limited to one event took the older of two queued events and gave it
\* to a wildcard registration only, the other registration not matching it
C31_Witness ==
    /\ bret.op = "process"
    /\ bret.arg = 1
    /\ Len(bret.calls) = 1
    /\ Len(bus_.queue_) = 1
    /\ Len(bus_.handlers_) = 2
    /\ Len(bret.calls[1].called) = 1
    /\ bus_.handlers_[bret.calls[1].called[1]].ident.cat = category_any
    /\ bret.calls[1].evt.ident.cat # category_any
    /\ \A i \in 1..2 : bus_.handlers_[i].active

(***************************************************************************)
(* task_mailbox::send and receive with the notifications they raise        *)
(***************************************************************************)
MaxSendPub == 3       \* publish calls in the send specification
SecondTopic == 8
SendTopics == {WaitTopic, SecondTopic}
SendKinds == {<<priority_normal, {}>>, <<priority_normal, {"urgent"}>>,
              <<priority_normal, {"persistent"}>>}
SendDepths == {1, queue_capacity}

\* message_broker::set_notify_on_empty_only: [mbs, code]
set_notify_on_empty_only(mbs, enabled) ==
    [mbs |-> [i \in 1..Len(mbs) |->
                 IF mbs[i].task_id # invalid_task_id
                 THEN [mbs[i] EXCEPT !.notify_on_empty_only = enabled]
                 ELSE mbs[i]],
     code |-> "success"]

outsideSend == <<topic_slots, topics_, now, publog, qosVars, protoVars, codecVars, taskVars,
                 sender_pc, receiver_, wret, received_tags, dropped_tags,
                 buildVars, dispatcherVars, ringVars, poolVars, dsVars, layoutVars,
                 eventVars, pipeVars, syncVars, wdVars>>

\* publish on a topic whose only subscriber is Owner: one mailbox send, and
\* os::notify_task(handle, 0x01) when that send decided to signal
SendSignalling(topic, kind) ==
    LET msg == NewMessage(kind[1], kind[2], pubs)
        Called(r, s) ==
            /\ mailboxes_' = r.b.mailboxes_
            /\ sequence_' = r.b.sequence_
            /\ sent_count_' = r.b.sent_count_
            /\ dropped_count_' = r.b.dropped_count_
            /\ lost' = lost \cup LostBy(r, msg)
            /\ ret' = Ret("publish", 0, topic, r.code, r.msg)
            /\ notification' = (notification \/ s.notify)
            /\ os_calls' = [notify_task |-> s.notify, clear_notification |-> FALSE]
        Sent(r) == Called(r, MailboxSend(MailboxOf(Owner), r.msg))
    IN
    /\ pubs < MaxSendPub
    /\ Sent(publish(Broker, topic, msg, 0, now))
    /\ pubs' = pubs + 1
    /\ UNCHANGED <<received_count_, outsideSend>>

\* try_receive(Owner): one mailbox receive, and os::clear_notification() when
\* the dequeue left the mailbox empty
ReceiveClearing ==
    LET Called(r, m) ==
            /\ mailboxes_' = r.mbs
            /\ received_count_' = Counted(r.code)
            /\ ret' = Ret("try_receive", Owner, 0, r.code, r.msg)
            /\ notification' = (notification /\ ~m.clear)
            /\ os_calls' = [notify_task |-> FALSE, clear_notification |-> m.clear]
    IN
    /\ Called(try_receive(mailboxes_, Owner), MailboxReceive(MailboxOf(Owner)))
    /\ UNCHANGED <<sequence_, sent_count_, dropped_count_, ghostVars, outsideSend>>

SetNotifyOnEmptyOnly(enabled) ==
    LET r == set_notify_on_empty_only(mailboxes_, enabled) IN
    /\ mailboxes_' = r.mbs
    /\ ret' = Ret("set_notify_on_empty_only", 0, 0, r.code, NoMsg)
    /\ UNCHANGED <<topic_slots, topics_, sequence_, statVars, now, ghostVars, qosVars, extVars>>

\* the broker after register_task(Owner, handle), with or without a task handle,
\* and subscribe(WaitTopic, Owner), subscribe(SecondTopic, Owner)
InitSend ==
    /\ topic_slots \in {1, 2}
    /\ \E handle \in {nullptr, OwnerHandle} :
          mailboxes_ = register_task(<<>>, Owner, handle).mbs
    /\ topics_ = subscribe(subscribe(<<>>, WaitTopic, Owner).ts, SecondTopic, Owner).ts
    /\ sequence_ = 0
    /\ sent_count_ = 0
    /\ received_count_ = 0
    /\ dropped_count_ = 0
    /\ now = 0
    /\ pubs = 0
    /\ publog = <<>>
    /\ lost = {}
    /\ ret = Ret("subscribe", Owner, SecondTopic, "success", NoMsg)
    /\ QosIdle
    /\ ExtIdle

NextSend ==
    \/ \E topic \in SendTopics, kind \in SendKinds : SendSignalling(topic, kind)
    \/ ReceiveClearing
    \/ \E enabled \in BOOLEAN : SetNotifyOnEmptyOnly(enabled)
    \/ \E b \in BOOLEAN : SetOverflowPolicy(Owner, b)
    \/ \E depth \in SendDepths : SetMailboxDepth(Owner, depth)

SpecSend == InitSend /\ [][NextSend]_vars

\* what a step of send or receive did about the notification, Signals(was_empty, mb)
\* being the condition under which a successful send into the mailbox mb signals
NotificationRule(Signals(_, _)) ==
    /\ ret'.op = "publish" =>
          /\ ret'.code = "success" =>
                (os_calls'.notify_task
                 <=> Signals(is_empty_unlocked(MailboxOf(Owner)), MailboxOf(Owner)))
          /\ ret'.code # "success" => ~os_calls'.notify_task
    /\ ret'.op = "try_receive" =>
          (os_calls'.clear_notification
           => ret'.code = "success" /\ is_empty_unlocked(MailboxOf(Owner)'))

\* C32 as stated: a successful send signals the owner with bit 0x01 if and only if the
\* mailbox was empty on entry or notify_on_empty_only is false; a refused send never
\* signals; receive clears the notification only when its dequeue emptied the mailbox.
C32_SignalsIffWasEmpty ==
    [][NotificationRule(LAMBDA was_empty, mb : was_empty \/ ~mb.notify_on_empty_only)]_vars

\* C32 amended: the same, for a mailbox registered with a task handle; a mailbox
\* without a handle is never signalled.
C32_SignalsIffWasEmptyAndHandle ==
    [][NotificationRule(LAMBDA was_empty, mb :
            mb.handle # nullptr /\ (was_empty \/ ~mb.notify_on_empty_only))]_vars

\* a successful send into a non-empty mailbox that has a handle did not signal
C32_Witness ==
    /\ ret.op = "publish"
    /\ ret.code = "success"
    /\ MailboxOf(Owner).handle # nullptr
    /\ MailboxOf(Owner).notify_on_empty_only
    /\ total_size(MailboxOf(Owner)) >= 2
    /\ ~os_calls.notify_task

\* the send of this step needs overflow handling and may not drop: msg is the
\* message as publish stamped it, mb the mailbox before the call
RefusedOverflow(mb, msg) ==
    LET idx == find_topic_index(mb.topic_queues, msg.type)
        target_full == /\ idx > 0
                       /\ IF is_urgent(msg)
                          THEN Len(mb.topic_queues[idx].high_queue) >= high_capacity
                          ELSE Len(mb.topic_queues[idx].normal_queue) >= normal_capacity
    IN /\ target_full \/ total_size(mb) >= mb.depth_limit
       /\ is_persistent(msg) \/ ~mb.overflow_drop_oldest

\* C33: a send that needs overflow handling while the message is persistent or the
\* policy is reject-new returns out_of_memory and leaves the mailbox exactly as it
\* was (queues, topic slot table, dropped_overflow), and sends no notification.
C33_RefusedSendChangesNothing ==
    [][(ret'.op = "publish" /\ RefusedOverflow(MailboxOf(Owner), ret'.msg)) =>
          /\ ret'.code = "out_of_memory"
          /\ mailboxes_' = mailboxes_
          /\ ~os_calls'.notify_task]_vars

\* what such a refused send does keep: every queued message, dropped_overflow and
\* the other fields; the topic slot table may have gained an empty slot
C33_RefusedSendKeepsMessages ==
    [][(ret'.op = "publish" /\ RefusedOverflow(MailboxOf(Owner), ret'.msg)) =>
          LET before == MailboxOf(Owner)
              after == MailboxOf(Owner)'
              slots == Len(before.topic_queues)
          IN /\ ret'.code = "out_of_memory"
             /\ ~os_calls'.notify_task
             /\ [after EXCEPT !.topic_queues = before.topic_queues] = before
             /\ SubSeq(after.topic_queues, 1, slots) = before.topic_queues
             /\ \A i \in (slots + 1)..Len(after.topic_queues) :
                   /\ after.topic_queues[i].high_queue = <<>>
                   /\ after.topic_queues[i].normal_queue = <<>>]_vars

(***************************************************************************)
(* byte_ring called from one context: push, pop, size, capacity            *)
(***************************************************************************)
RingBytes == {17, 34}

\* byte_ring::push: [r, ok]
push(r, b) ==
    IF next_index(r.head_) = r.tail_ THEN [r |-> r, ok |-> FALSE]
    ELSE [r |-> [r EXCEPT !.buf_[r.head_] = b, !.head_ = next_index(r.head_)], ok |-> TRUE]

\* byte_ring::pop: [r, ok, out]
pop(r) ==
    IF empty(r) THEN [r |-> r, ok |-> FALSE, out |-> 0]
    ELSE [r |-> [r EXCEPT !.tail_ = next_index(r.tail_)], ok |-> TRUE, out |-> r.buf_[r.tail_]]

size(r) ==
    IF r.head_ >= r.tail_ THEN r.head_ - r.tail_
    ELSE RingCapacity - (r.tail_ - r.head_)

capacity == RingCapacity

\* a whole push call
RingPush(b) ==
    /\ ring_calls.push < MaxRingPush
    /\ ring_' = push(ring_, b).r
    /\ producer_' = [ProducerIdle EXCEPT !.b = b, !.ret = push(ring_, b).ok]
    /\ pushed' = IF push(ring_, b).ok THEN Append(pushed, b) ELSE pushed
    /\ ring_calls' = [ring_calls EXCEPT !.push = @ + 1]
    /\ UNCHANGED <<consumer_, popped, in_order, outsideRing>>

\* a whole pop call
RingPop ==
    /\ ring_calls.pop < MaxRingPop
    /\ ring_' = pop(ring_).r
    /\ consumer_' = [ConsumerIdle EXCEPT !.out = pop(ring_).out, !.ret = pop(ring_).ok]
    /\ popped' = IF pop(ring_).ok THEN Append(popped, pop(ring_).out) ELSE popped
    /\ ring_calls' = [ring_calls EXCEPT !.pop = @ + 1]
    /\ UNCHANGED <<producer_, pushed, in_order, outsideRing>>

InitRingCalls ==
    /\ MessagingIdle
    /\ ExtIdle

NextRingCalls ==
    \/ \E b \in RingBytes : RingPush(b)
    \/ RingPop

SpecRingCalls == InitRingCalls /\ [][NextRingCalls]_vars

\* full() is true exactly when size() = limit, and size() is the number of accepted
\* pushes minus the number of successful pops
SizeUpTo(limit) ==
    /\ full(ring_) <=> size(ring_) = limit
    /\ size(ring_) = Len(pushed) - Len(popped)

\* a push called while size() < limit succeeds
PushAcceptsBelow(limit) ==
    (ring_calls'.push # ring_calls.push /\ size(ring_) < limit) => producer_'.ret = TRUE

\* C39: a byte_ring<Capacity> stores up to capacity() bytes: push succeeds whenever
\* size() < capacity(), full() is true exactly when size() = capacity(), and size()
\* equals the accepted pushes minus the successful pops.
C39_StoresCapacityBytes ==
    []SizeUpTo(capacity) /\ [][PushAcceptsBelow(capacity)]_vars

\* what holds of C39: the same with capacity() - 1 as the number of bytes stored
C39_StoresCapacityMinusOne ==
    []SizeUpTo(capacity - 1) /\ [][PushAcceptsBelow(capacity - 1)]_vars

(***************************************************************************)
(* packet_pipeline: byte ring -> parser -> dispatcher                      *)
(***************************************************************************)
MaxPipePackets == 2   \* largest finite max_packets of a process_available call
MaxPipeBytes == 3     \* largest max_bytes of a process_bytes call
size_max == 2147483647  \* stands for static_cast<size_t>(-1), above every count of the model

\* the byte streams of the driver: frames back to back, a frame after noise that
\* ends in a SYNC byte, a frame whose checksum is wrong followed by a good one
Tapes ==
    {Frame(1, <<>>) \o Frame(2, <<5>>) \o Frame(3, <<>>),
     <<0, 85>> \o Frame(1, <<7, 9>>) \o <<170>> \o Frame(2, <<>>),
     <<85, 170, 1, 0, 0, 0, 0>> \o Frame(4, <<>>) \o Frame(4, <<>>)}

PacketLimits == (0..MaxPipePackets) \cup {size_max}
ByteLimits == 0..MaxPipeBytes

\* the body of both loops after a byte was popped: decode, and when the parser
\* reports a packet, get_packet and dispatch: [parser, out] with out the packets
\* handed to the dispatcher
pipeline_byte(parser, byte) ==
    LET Decoded(d) ==
            IF d.done /\ d.p.packet_ready_
            THEN IF get_packet(d.p).ok
                 THEN [parser |-> get_packet(d.p).p, out |-> <<get_packet(d.p).out>>]
                 ELSE [parser |-> get_packet(d.p).p, out |-> <<>>]
            ELSE [parser |-> d.p, out |-> <<>>]
    IN Decoded(decode(parser, byte))

\* process_available that tests the packet limit only after it popped the byte
RECURSIVE process_available_late(_, _, _, _)
process_available_late(pl, max_packets, packets, bytes) ==
    LET Popped(r) ==
            IF ~r.ok \/ packets >= max_packets
            THEN [pl |-> [pl EXCEPT !.ring = r.r], packets |-> packets, bytes |-> bytes,
                  out |-> <<>>]
            ELSE LET step == pipeline_byte(pl.parser, r.out)
                     rest == process_available_late([ring |-> r.r, parser |-> step.parser],
                                                    max_packets, packets + Len(step.out),
                                                    bytes + 1)
                 IN [rest EXCEPT !.out = step.out \o @]
    IN Popped(pop(pl.ring))

\* packet_pipeline::process_available, packets dispatched and bytes popped so far:
\* [pl, packets, bytes, out]
RECURSIVE process_available(_, _, _, _)
process_available(pl, max_packets, packets, bytes) ==
    LET Popped(r) ==
            IF ~r.ok
            THEN [pl |-> pl, packets |-> packets, bytes |-> bytes, out |-> <<>>]
            ELSE LET step == pipeline_byte(pl.parser, r.out)
                     rest == process_available([ring |-> r.r, parser |-> step.parser],
                                               max_packets, packets + Len(step.out),
                                               bytes + 1)
                 IN [rest EXCEPT !.out = step.out \o @]
    IN IF packets < max_packets THEN Popped(pop(pl.ring))
       ELSE [pl |-> pl, packets |-> packets, bytes |-> bytes, out |-> <<>>]

\* packet_pipeline::process_bytes: [pl, packets, bytes, out]
RECURSIVE process_bytes(_, _, _, _)
process_bytes(pl, max_bytes, packets, processed) ==
    LET Popped(r) ==
            IF ~r.ok
            THEN [pl |-> pl, packets |-> packets, bytes |-> processed, out |-> <<>>]
            ELSE LET step == pipeline_byte(pl.parser, r.out)
                     rest == process_bytes([ring |-> r.r, parser |-> step.parser],
                                           max_bytes, packets + Len(step.out), processed + 1)
                 IN [rest EXCEPT !.out = step.out \o @]
    IN IF processed < max_bytes THEN Popped(pop(pl.ring))
       ELSE [pl |-> pl, packets |-> packets, bytes |-> processed, out |-> <<>>]

\* feed_byte by the driver, which waits while the ring is full
PipeFeedByte ==
    /\ pipe_src # <<>>
    /\ ~full(pipe_.ring)
    /\ pipe_' = [pipe_ EXCEPT !.ring = push(@, Head(pipe_src)).r]
    /\ pipe_src' = Tail(pipe_src)
    /\ pipe_fed' = Append(pipe_fed, Head(pipe_src))
    /\ pipe_ret' = [op |-> "feed_byte", limit |-> 0, packets |-> 0, bytes |-> 0]
    /\ UNCHANGED <<pipe_out, outsidePipe>>

ProcessAvailable(max_packets) ==
    LET Called(r) ==
            /\ pipe_' = r.pl
            /\ pipe_out' = pipe_out \o r.out
            /\ pipe_ret' = [op |-> "process_available", limit |-> max_packets,
                            packets |-> r.packets, bytes |-> r.bytes]
    IN /\ Called(process_available(pipe_, max_packets, 0, 0))
       /\ UNCHANGED <<pipe_src, pipe_fed, outsidePipe>>

ProcessBytes(max_bytes) ==
    LET Called(r) ==
            /\ pipe_' = r.pl
            /\ pipe_out' = pipe_out \o r.out
            /\ pipe_ret' = [op |-> "process_bytes", limit |-> max_bytes,
                            packets |-> r.packets, bytes |-> r.bytes]
    IN /\ Called(process_bytes(pipe_, max_bytes, 0, 0))
       /\ UNCHANGED <<pipe_src, pipe_fed, outsidePipe>>

InitPipe ==
    /\ MessagingIdle
    /\ ProtoIdle /\ CodecIdle /\ TaskIdle /\ WaitIdle
    /\ BuildIdle /\ DispatcherIdle /\ RingIdle /\ PoolIdle /\ DsIdle /\ LayoutIdle
    /\ EventIdle /\ SyncIdle /\ WdIdle /\ OsIdle
    /\ pipe_ = [ring |-> NewRing, parser |-> NewParser(MaxPayload)]
    /\ pipe_src \in Tapes
    /\ pipe_fed = <<>>
    /\ pipe_out = <<>>
    /\ pipe_ret = [op |-> "init", limit |-> 0, packets |-> 0, bytes |-> 0]

NextPipe ==
    \/ PipeFeedByte
    \/ \E max_packets \in PacketLimits : ProcessAvailable(max_packets)
    \/ \E max_bytes \in ByteLimits : ProcessBytes(max_bytes)

SpecPipe == InitPipe /\ [][NextPipe]_vars

\* the packets one unlimited process_available call dispatches when it finds the
\* bytes in a ring large enough to hold them, the parser being in state parser
RECURSIVE DispatchedAtOnce(_, _)
DispatchedAtOnce(parser, bytes) ==
    IF bytes = <<>> THEN <<>>
    ELSE pipeline_byte(parser, Head(bytes)).out
         \o DispatchedAtOnce(pipeline_byte(parser, Head(bytes)).parser, Tail(bytes))

\* the bytes popped from the ring so far
PipeConsumed == SubSeq(pipe_fed, 1, Len(pipe_fed) - size(pipe_.ring))

\* C34: the packets dispatched do not depend on how processing is sliced: over any
\* series of process_available and process_bytes calls with any limits they are the
\* packets one unlimited process_available call dispatches for the bytes consumed;
\* and process_available(n) dispatches at most n packets and pops no byte after the
\* one that completes the n-th packet.
C34_SlicingInvariant ==
    /\ [](pipe_out = DispatchedAtOnce(NewParser(MaxPayload), PipeConsumed))
    /\ [][pipe_ret'.op = "process_available" =>
             /\ pipe_ret'.packets <= pipe_ret'.limit
             /\ Len(pipe_out') = Len(pipe_out) + pipe_ret'.packets
             /\ (pipe_ret'.packets = pipe_ret'.limit /\ pipe_ret'.bytes > 0) =>
                   Len(DispatchedAtOnce(NewParser(MaxPayload),
                                        SubSeq(PipeConsumed', 1, Len(PipeConsumed') - 1)))
                   < Len(pipe_out')]_vars

\* a process_available(1) call stopped at its packet with a byte left in the ring,
\* after earlier calls had consumed part of that packet, and a second packet followed
C34_Witness ==
    /\ pipe_ret.op = "process_available"
    /\ pipe_ret.limit = 1
    /\ pipe_ret.packets = 1
    /\ pipe_ret.bytes = 1
    /\ ~empty(pipe_.ring)
    /\ Len(pipe_out) = 2

(***************************************************************************)
(* packet_parser::on_sync for any SyncPattern template argument            *)
(***************************************************************************)
MaxSyncLen == 3   \* longest SyncPattern instantiated
MaxSyncFed == 5   \* bytes fed while the parser looks for SYNC

SyncBytes == SeqElems(PACKET_SYNC)
SyncPatterns == UNION {[1..n -> SyncBytes] : n \in 1..MaxSyncLen}
StreamBytes == SyncBytes \cup {0}

\* packet_parser<MaxPayload, SyncLen, Length16Bit, SyncPattern>::on_sync on the
\* members it touches: state_ and sync_index_
on_sync_pattern(p, b) ==
    IF b = p.SyncPattern[p.sync_index_ + 1]
    THEN IF p.sync_index_ + 1 = Len(p.SyncPattern)
         THEN [p EXCEPT !.state_ = "OP_CODE", !.sync_index_ = 0]
         ELSE [p EXCEPT !.sync_index_ = @ + 1]
    ELSE [p EXCEPT !.sync_index_ = IF b = p.SyncPattern[1] THEN 1 ELSE 0]

\* decode(b) while the parser is in SYNC
SyncDecode(b) ==
    /\ sync_.state_ = "SYNC"
    /\ Len(sync_fed) < MaxSyncFed
    /\ sync_' = on_sync_pattern(sync_, b)
    /\ sync_fed' = Append(sync_fed, b)
    /\ UNCHANGED outsideSync

InitSync ==
    /\ MessagingIdle
    /\ ProtoIdle /\ CodecIdle /\ TaskIdle /\ WaitIdle
    /\ BuildIdle /\ DispatcherIdle /\ RingIdle /\ PoolIdle /\ DsIdle /\ LayoutIdle
    /\ EventIdle /\ PipeIdle /\ WdIdle /\ OsIdle
    /\ \E pattern \in SyncPatterns :
          sync_ = [SyncPattern |-> pattern, state_ |-> "SYNC", sync_index_ |-> 0]
    /\ sync_fed = <<>>

NextSync == \E b \in StreamBytes : SyncDecode(b)

SpecSync == InitSync /\ [][NextSync]_vars

\* the bytes fed hold the whole SYNC pattern somewhere
SyncOccurs ==
    \E i \in 1..Len(sync_fed) :
        /\ i + Len(sync_.SyncPattern) - 1 <= Len(sync_fed)
        /\ SubSeq(sync_fed, i, i + Len(sync_.SyncPattern) - 1) = sync_.SyncPattern

\* the parser has left SYNC exactly when the bytes fed hold the pattern; as bytes
\* are fed only in SYNC, it left on the byte that completed the first occurrence
LeftSyncOnFirstOccurrence == (sync_.state_ = "OP_CODE") <=> SyncOccurs

\* C35: for every SYNC pattern, also one whose prefix repeats, and every byte stream
\* fed in SYNC state, the parser moves to OPCODE on exactly the byte that completes
\* the first occurrence of the pattern: it never misses one and never leaves SYNC
\* without one.
C35_SyncFound == LeftSyncOnFirstOccurrence

\* what holds of C35: the same for the patterns whose first byte occurs nowhere else
\* in the pattern, the configured {0x55, 0xAA} among them
C35_SyncFoundDistinctLead ==
    (\A i \in 2..Len(sync_.SyncPattern) : sync_.SyncPattern[i] # sync_.SyncPattern[1])
        => LeftSyncOnFirstOccurrence

(***************************************************************************)
(* Specification SpecSuspend: suspend_task against run()                   *)
(*   tasks are created, suspended, started and resumed from outside run()  *)
(*   and from inside it: the function run() invokes may itself call        *)
(*   suspend_task on any task id, its own included                         *)
(***************************************************************************)
NoCall == invalid_task_id
FunctionCalls == CreatedIds \cup {NoCall}

\* the task function invoked by run(): it calls suspend_task(called) or nothing
task_function(tasks, called) ==
    IF called = NoCall THEN [tasks |-> tasks, result |-> "success"]
    ELSE suspend_task(tasks, called)

\* run() when the selected task's function calls suspend_task(called) and takes
\* exec_ms: the selected task is marked running, the function runs, then the
\* measurements and the final store to state are applied to the selected task
run_calling(tm, tasks, current_time, exec_ms, called) ==
    LET Selected(i) ==
            IF i # 0 /\ tasks[i].function
            THEN LET running == [tasks EXCEPT ![i].state = "running",
                                              ![i].last_run_time = current_time]
                     body == task_function(running, called)
                 IN [tm |-> [tm EXCEPT !.total_context_switches_ = @ + 1],
                     tasks |-> [body.tasks EXCEPT ![i] =
                                   Executed(body.tasks[i], current_time, current_time,
                                            current_time + exec_ms)],
                     executed |-> i, result |-> body.result,
                     time |-> current_time + exec_ms]
            ELSE [tm |-> tm, tasks |-> tasks, executed |-> 0, result |-> "success",
                  time |-> current_time + 1]
    IN IF ~tm.initialized_
       THEN [tm |-> tm, tasks |-> tasks, executed |-> 0, result |-> "success",
             time |-> current_time]
       ELSE Selected(SelectTask(tasks, current_time, Len(tasks)).task_to_run)

\* one call of run(); tret.id is the id the function passed to suspend_task and
\* tret.result what suspend_task returned to it
RunCalling(exec_ms, called) ==
    LET Called(r) ==
            /\ r.time <= MaxTimeMs
            /\ taskmaster_' = r.tm
            /\ tasks_' = r.tasks
            /\ time_ms' = r.time
            /\ tret' = TaskRet("run", called, r.result, r.executed)
    IN
    /\ taskmaster_.total_context_switches_ < MaxRuns
    /\ Called(run_calling(taskmaster_, tasks_, time_ms, exec_ms, called))
    /\ UNCHANGED <<messagingVars, sysVars, protoVars, codecVars, waitVars>>

InitSuspend == InitTasks

NextSuspend ==
    \/ Initialize
    \/ \E priority_level \in Priorities, period_ms \in TaskPeriods :
           CreateTask(priority_level, period_ms)
    \/ \E task_id \in CreatedIds : StartTask(task_id)
    \/ \E task_id \in CreatedIds : SuspendTask(task_id)
    \/ \E task_id \in CreatedIds : ResumeTask(task_id)
    \/ \E exec_ms \in ExecTimes, called \in FunctionCalls : RunCalling(exec_ms, called)
    \/ TimePasses

SpecSuspend == InitSuspend /\ [][NextSuspend]_vars

\* suspend_task(T) returned success in the step: called from outside run(), or
\* by the function run() invoked
SuspendReturned(T) ==
    \/ tret'.op = "suspend_task" /\ tret'.id = T /\ tret'.result = "success"
    \/ tret'.op = "run" /\ tret'.executed # 0 /\ tret'.id = T /\ tret'.result = "success"

\* start_task(T) or resume_task(T) is the call of the step
Restarted(T) == tret'.op \in {"start_task", "resume_task"} /\ tret'.id = T

\* the function of the task at index i is running when suspend_task is called
SuspendsItself(i) == tret'.op = "run" /\ tret'.executed = i /\ tret'.id = tasks_[i].id

\* T is suspended when suspend_task(T) has returned, and a suspended T stays
\* suspended and is not invoked by a step that is not start_task(T) / resume_task(T)
SuspendedIsNotExecuted(T, i) ==
    /\ SuspendReturned(T) => tasks_'[i].state = "suspended"
    /\ (tasks_[i].state = "suspended" /\ ~Restarted(T))
           => /\ tasks_'[i].state = "suspended"
              /\ tasks_'[i].run_count = tasks_[i].run_count

\* C36: from the return of suspend_task(T) until the next start_task(T) or
\* resume_task(T), T's state stays suspended and run() does not invoke T's
\* function, also when suspend_task(T) is called by T's own function inside run().
C36_SuspendedNeverExecuted ==
    [][\A T \in CreatedIds :
           find_task(tasks_, T) # 0
               => SuspendedIsNotExecuted(T, find_task(tasks_, T))]_vars

\* the same for every suspend_task call but the one a task makes on itself
C36_SuspendedByOthersNeverExecuted ==
    [][\A T \in CreatedIds :
           (find_task(tasks_, T) # 0 /\ ~SuspendsItself(find_task(tasks_, T)))
               => SuspendedIsNotExecuted(T, find_task(tasks_, T))]_vars

\* a task suspended by another task's function inside run() is passed over by the
\* next run() although it is ready by priority and period
C36_Witness ==
    /\ tret.op = "run"
    /\ tret.executed = 0
    /\ \E i \in 1..Len(tasks_) : tasks_[i].state = "suspended" /\ tasks_[i].run_count = 0
    /\ \E j \in 1..Len(tasks_) : tasks_[j].run_count > 0

(***************************************************************************)
(* Specification SpecCreate: the task table under create_task and          *)
(* create_native_task                                                      *)
(*   cooperative and native tasks of every priority are created in any     *)
(*   order; the platform accepts or refuses each native creation           *)
(***************************************************************************)
MaxCreateCalls == 3   \* create calls that take an id

\* create_native_task; os_created is what os::create_native_task returns
create_native_task(tm, tasks, cfg, current_time, os_created) ==
    LET tcb == [task_control_block EXCEPT
                   !.id = tm.next_task_id_,
                   !.function = cfg.function,
                   !.priority_level = cfg.priority_level,
                   !.state = "ready",
                   !.created_time = current_time,
                   !.period_ms = cfg.period_ms,
                   !.is_native = TRUE]
        taken == [tm EXCEPT !.next_task_id_ = (@ + 1) % U16]
        listed == Append(tasks, tcb)
    IN IF ~tm.initialized_
       THEN [tm |-> tm, tasks |-> tasks, result |-> "not_initialized", id |-> invalid_task_id]
       ELSE IF Len(tasks) = MaxTasks
       THEN [tm |-> tm, tasks |-> tasks, result |-> "out_of_memory", id |-> invalid_task_id]
       ELSE IF MaxTasks - Len(tasks) = 0
       THEN [tm |-> taken, tasks |-> tasks, result |-> "out_of_memory", id |-> invalid_task_id]
       ELSE IF ~os_created
       THEN [tm |-> taken, tasks |-> SubSeq(listed, 1, Len(listed) - 1),
             result |-> "invalid_parameter", id |-> invalid_task_id]
       ELSE [tm |-> taken, tasks |-> listed, result |-> "success", id |-> tcb.id]

CreateNativeTask(priority_level, period_ms, os_created) ==
    LET Called(r) ==
            /\ taskmaster_' = r.tm
            /\ tasks_' = r.tasks
            /\ tret' = TaskRet("create_native_task", r.id, r.result, 0)
    IN
    /\ Len(tasks_) < MaxCreated
    /\ taskmaster_.next_task_id_ < MaxCreateCalls \/ ~taskmaster_.initialized_
    /\ Called(create_native_task(taskmaster_, tasks_,
                                 [function |-> TRUE, priority_level |-> priority_level,
                                  period_ms |-> period_ms], time_ms, os_created))
    /\ UNCHANGED <<time_ms, messagingVars, sysVars, protoVars, codecVars, waitVars>>

\* find_task(task_id) called from outside; tret.executed is the index found
FindTask(task_id) ==
    /\ tret' = TaskRet("find_task", task_id, "success", find_task(tasks_, task_id))
    /\ UNCHANGED <<tasks_, taskmaster_, time_ms, messagingVars, sysVars, protoVars,
                   codecVars, waitVars>>

CreateIds == 0..MaxCreateCalls

InitCreate == InitTasks

NextCreate ==
    \/ Initialize
    \/ \E priority_level \in Priorities, period_ms \in TaskPeriods :
           CreateTask(priority_level, period_ms)
    \/ \E priority_level \in Priorities, period_ms \in TaskPeriods, os_created \in BOOLEAN :
           CreateNativeTask(priority_level, period_ms, os_created)
    \/ \E task_id \in CreateIds : FindTask(task_id)

SpecCreate == InitCreate /\ [][NextCreate]_vars

\* every task of the table sits at the index equal to its id
IdIsIndex == \A i \in 1..Len(tasks_) : tasks_[i].id = i - 1

\* the id a successful create returned resolves to the task just created
CreatedResolves ==
    (tret.op \in {"create_task", "create_native_task"} /\ tret.result = "success")
        => /\ find_task(tasks_, tret.id) = Len(tasks_)
           /\ tasks_[Len(tasks_)].id = tret.id

\* find_task finds every task of the table by its id, at its own place
FoundByItsId ==
    (tret.op = "find_task" /\ \E i \in 1..Len(tasks_) : tasks_[i].id = tret.id)
        => tret.executed # 0 /\ tasks_[tret.executed].id = tret.id

\* C37: after any sequence of create_task and create_native_task calls, native
\* creations refused by the platform included, every task of the table sits at
\* the index equal to its id, and each id a successful create returned resolves
\* through find_task to that task and to no other.
C37_IdIsIndex == IdIsIndex /\ CreatedResolves /\ FoundByItsId

\* the same as long as the platform has refused no native creation: every id
\* taken so far is in the table
C37_IdIsIndexUnrefused ==
    taskmaster_.next_task_id_ = Len(tasks_) => IdIsIndex /\ CreatedResolves /\ FoundByItsId

\* a native task and a cooperative task are in the table and the second one was
\* looked up by its id
C37_Witness ==
    /\ Len(tasks_) = 2
    /\ taskmaster_.next_task_id_ = 2
    /\ tasks_[1].is_native /\ ~tasks_[2].is_native
    /\ tret.op = "find_task" /\ tret.id = 1 /\ tret.executed = 2

(***************************************************************************)
(* Specification SpecQosError: qos_publisher.publish returning an error    *)
(*   the scenario of SpecQos, with the publisher also publishing to a      *)
(*   topic nobody has subscribed to, so that the broker rejects the        *)
(*   message after the publisher has taken it                              *)
(***************************************************************************)
UnsubscribedTopic == 12
QosPublishTopics == {DataTopic, UnsubscribedTopic}

QosPublishTo(topic_id, kind) ==
    LET Called(r) ==
            /\ pending_' = r.q.pending_
            /\ local_seq_' = r.q.local_seq_
            /\ mailboxes_' = r.b.mailboxes_
            /\ sequence_' = r.b.sequence_
            /\ sent_count_' = r.b.sent_count_
            /\ dropped_count_' = r.b.dropped_count_
            /\ accepted' = IF r.code = "success" THEN accepted \cup {r.msg.sequence_number}
                           ELSE accepted
            /\ ret' = RetSent("qos_publish", QosPublisherTask, topic_id, r.code, r.msg,
                              IF r.forwarded THEN <<r.msg.sequence_number>> ELSE <<>>)
    IN
    /\ pubs < MaxQosPub
    /\ Called(qos_publish(QosPublisher, Broker, topic_id,
                          NewMessage(kind[1], kind[2], pubs), now))
    /\ pubs' = pubs + 1
    /\ UNCHANGED <<topic_slots, topics_, received_count_, now, publog, lost, last_seq_,
                   delivered, raws, ticks>>
    /\ UNCHANGED extVars

InitQosError == InitQos

NextQosError ==
    \/ \E topic_id \in QosPublishTopics, kind \in QosKinds : QosPublishTo(topic_id, kind)
    \/ PumpRetransmit
    \/ PollAck
    \/ QosReceive
    \/ Tick

SpecQosError == InitQosError /\ [][NextQosError]_vars

\* qos_publisher.publish returned an error in the step
PublishFailed == ret'.op = "qos_publish" /\ ret'.code # "success"

\* C38: whenever qos_publisher.publish returns an error (pending map full,
\* sequence already pending, or the broker rejecting the message), the pending
\* map is the same as before the call, so pump_retransmit never sends a message
\* whose publish failed.
C38_FailedPublishLeavesPending ==
    [][PublishFailed => pending_' = pending_]_vars

\* the same for the errors the publisher returns before it forwards the message
\* to the broker: pending map full, sequence already pending
C38_UnforwardedLeavesPending ==
    [][(PublishFailed /\ ret'.sent = <<>>) => pending_' = pending_]_vars

\* publish failed on a full pending map
C38_Witness ==
    /\ ret.op = "qos_publish" /\ ret.code = "out_of_memory" /\ ret.sent = <<>>
    /\ Cardinality(DOMAIN pending_) = PendingLimit

(***************************************************************************)
(* Task watchdog (task/watchdog.hpp)                                       *)
(*   watchdog_ is entries_; wd_now is platform::get_system_time_us()       *)
(***************************************************************************)
MaxWdEntries == 2     \* register_task calls
MaxWdTicks == 4       \* clock ticks
WdTickUs == 500       \* microseconds per clock tick
UsPerMs == 1000
WdTasks == {0, 1}
WdTimeouts == {1, 2}  \* timeout_ms of the registered tasks

\* index of the first enabled entry of the task, 0 for nullptr
find_entry(entries, task_id) ==
    LET found == {i \in 1..Len(entries) : entries[i].task_id = task_id /\ entries[i].enabled}
    IN IF found = {} THEN 0 ELSE CHOOSE i \in found : \A j \in found : i <= j

\* register_task: [entries, result]
wd_register_task(entries, task_id, timeout, time_us) ==
    IF Len(entries) = MaxTasks THEN [entries |-> entries, result |-> "out_of_memory"]
    ELSE [entries |-> Append(entries, [task_id |-> task_id, last_feed_time |-> time_us,
                                       timeout_ms |-> timeout, timeout_count |-> 0,
                                       enabled |-> TRUE]),
          result |-> "success"]

feed(entries, task_id, time_us) ==
    LET At(i) == IF i = 0 THEN entries ELSE [entries EXCEPT ![i].last_feed_time = time_us]
    IN At(find_entry(entries, task_id))

is_alive(entries, task_id, time_us) ==
    LET At(i) == IF i = 0 THEN FALSE
                 ELSE ((time_us - entries[i].last_feed_time) \div UsPerMs) < entries[i].timeout_ms
    IN At(find_entry(entries, task_id))

\* check_all: every enabled entry whose timeout has elapsed is triggered and
\* its timer reset
check_all(entries, time_us) ==
    [i \in 1..Len(entries) |->
        IF ~entries[i].enabled THEN entries[i]
        ELSE IF ((time_us - entries[i].last_feed_time) \div UsPerMs) >= entries[i].timeout_ms
        THEN [entries[i] EXCEPT !.timeout_count = @ + 1, !.last_feed_time = time_us]
        ELSE entries[i]]

enable_task(entries, task_id, enable, time_us) ==
    LET At(i) == IF i = 0 THEN entries
                 ELSE [entries EXCEPT ![i].enabled = enable,
                                      ![i].last_feed_time = IF enable THEN time_us ELSE @]
    IN At(find_entry(entries, task_id))

WdRet(op, task_id, enable, alive) ==
    [op |-> op, task_id |-> task_id, enable |-> enable, alive |-> alive]

WdRegisterTask(task_id, timeout) ==
    /\ Len(watchdog_) < MaxWdEntries
    /\ watchdog_' = wd_register_task(watchdog_, task_id, timeout, wd_now).entries
    /\ wd_ret' = WdRet("register_task", task_id, TRUE, TRUE)
    /\ UNCHANGED <<wd_now, outsideWd>>

WdFeed(task_id) ==
    /\ watchdog_' = feed(watchdog_, task_id, wd_now)
    /\ wd_ret' = WdRet("feed", task_id, TRUE, TRUE)
    /\ UNCHANGED <<wd_now, outsideWd>>

WdIsAlive(task_id) ==
    /\ wd_ret' = WdRet("is_alive", task_id, TRUE, is_alive(watchdog_, task_id, wd_now))
    /\ UNCHANGED <<watchdog_, wd_now, outsideWd>>

WdCheckAll ==
    /\ watchdog_' = check_all(watchdog_, wd_now)
    /\ wd_ret' = WdRet("check_all", 0, TRUE, TRUE)
    /\ UNCHANGED <<wd_now, outsideWd>>

WdEnableTask(task_id, enable) ==
    /\ watchdog_' = enable_task(watchdog_, task_id, enable, wd_now)
    /\ wd_ret' = WdRet("enable_task", task_id, enable, TRUE)
    /\ UNCHANGED <<wd_now, outsideWd>>

WdTick ==
    /\ wd_now < MaxWdTicks * WdTickUs
    /\ wd_now' = wd_now + WdTickUs
    /\ wd_ret' = WdRet("tick", 0, TRUE, TRUE)
    /\ UNCHANGED <<watchdog_, outsideWd>>

(***************************************************************************)
(* Specification SpecWd: tasks are registered with the watchdog, fed,      *)
(* disabled, enabled, asked about and checked while the clock advances     *)
(***************************************************************************)
InitWd ==
    /\ MessagingIdle
    /\ ExtIdle

NextWd ==
    \/ \E task_id \in WdTasks, timeout \in WdTimeouts : WdRegisterTask(task_id, timeout)
    \/ \E task_id \in WdTasks : WdFeed(task_id)
    \/ \E task_id \in WdTasks : WdIsAlive(task_id)
    \/ WdCheckAll
    \/ \E task_id \in WdTasks, enable \in BOOLEAN : WdEnableTask(task_id, enable)
    \/ WdTick

SpecWd == InitWd /\ [][NextWd]_vars

\* the task has an entry, enabled or not
Registered(entries, task_id) == \E i \in 1..Len(entries) : entries[i].task_id = task_id

\* the task has an enabled entry whose feed timer was started at time_us
MonitoredSince(entries, task_id, time_us) ==
    \E i \in 1..Len(entries) :
        /\ entries[i].task_id = task_id
        /\ entries[i].enabled
        /\ entries[i].last_feed_time = time_us

\* enable_task(T, true) is the call of the step
Enabling(T) == wd_ret'.op = "enable_task" /\ wd_ret'.task_id = T /\ wd_ret'.enable

\* C40: after enable_task(T, false) and then enable_task(T, true) on a registered
\* task, T's entry is enabled again with its feed timer restarted: every
\* enable_task(T, true) on a registered task, disabled before or not, leaves T
\* monitored with last_feed_time = now, and is_alive(T) is then true.
C40_EnableRoundTrip ==
    [][\A T \in WdTasks :
           (Enabling(T) /\ Registered(watchdog_, T))
               => /\ MonitoredSince(watchdog_', T, wd_now)
                  /\ is_alive(watchdog_', T, wd_now)]_vars

\* the same for a task that still has an enabled entry when enable_task(T, true)
\* is called
C40_EnableRestartsEnabled ==
    [][\A T \in WdTasks :
           (Enabling(T) /\ find_entry(watchdog_, T) # 0)
               => /\ MonitoredSince(watchdog_', T, wd_now)
                  /\ is_alive(watchdog_', T, wd_now)]_vars

\* enable_task(T, true) restarted the timer of a task whose timeout had elapsed
C40_Witness ==
    /\ wd_ret.op = "enable_task" /\ wd_ret.enable
    /\ wd_now > 0
    /\ \E i \in 1..Len(watchdog_) :
           /\ watchdog_[i].task_id = wd_ret.task_id
           /\ watchdog_[i].enabled
           /\ watchdog_[i].last_feed_time = wd_now

====
